---- MODULE Spec2Model ----
(***************************************************************************)
(* A model of the plank tessellation engine: the geometry kernel           *)
(* (geometry.ts), plank geometry (plank.ts), the cutting strategies        *)
(* (plankCutting.ts) and the row scheduler (tessellation.ts).              *)
(*                                                                         *)
(* Numbers.  Every JavaScript number v of the program is represented by    *)
(* the integer v * Scale (fixed point, Scale units per 1.0), whether the   *)
(* program means it as millimetres or as pixels; a product of two numbers  *)
(* is therefore in units of 1/Scale^2.  The arithmetic is exact rational   *)
(* arithmetic on the inputs the model draws (floating-point rounding is    *)
(* not modelled); Sqrt is the floor of the real square root at that        *)
(* resolution.  Planks have rotation 0, where Math.cos and Math.sin are    *)
(* exactly 1 and 0.                                                        *)
(***************************************************************************)
EXTENDS Integers, Sequences, FiniteSets, TLC

VARIABLES
    rectA, rectB, rectShift, rectRes,      \* doRectanglesIntersect harness
    room,                                  \* the room polygon (polygonPoints)
    candidate, cutResult,                  \* the candidate plank and what the strategy chain made of it
    dims, seed,                            \* generateTessellation: dimensions and firstPlank,
    planks, spares, idCounter,             \*   newPlanks, newSpares and the plankId counter,
    row, rowSt, attempts,                  \*   the rowIndex in hand, its rowState and its loop counter
    now,                                   \* Date.now()
    callArgs, callResult,                  \* one call of a library function: its arguments, its result
    pc                                     \* which harness / program point

vars == <<rectA, rectB, rectShift, rectRes, room, candidate, cutResult,
          dims, seed, planks, spares, idCounter, row, rowSt, attempts,
          now, callArgs, callResult, pc>>

rectVars == <<rectA, rectB, rectShift, rectRes>>
cutVars == <<candidate, cutResult>>
tessVars == <<dims, seed, planks, spares, idCounter, row, rowSt, attempts>>
callVars == <<callArgs, callResult>>

\* MM_TO_PIXELS = 1 / 10, held as its denominator.
PixelsPerMmDen == 10

\* Fixed-point resolution: 40 units per 1.0, i.e. 0.025 px or 0.025 mm.
Scale == 4 * PixelsPerMmDen

mmToPixels(mm) == mm \div PixelsPerMmDen

pixelsToMm(px) == px * PixelsPerMmDen

----------------------------------------------------------------------------
(* Arithmetic helpers *)

Abs(n) == IF n < 0 THEN -n ELSE n

Min2(a, b) == IF a <= b THEN a ELSE b

Max2(a, b) == IF a >= b THEN a ELSE b

SetMin(S) == CHOOSE m \in S : \A n \in S : m <= n

SetMax(S) == CHOOSE m \in S : \A n \in S : m >= n

Range(s) == {s[i] : i \in DOMAIN s}

\* The element of a one-element set
Only(S) == CHOOSE v \in S : TRUE

RECURSIVE SqrtSearch(_, _, _)
SqrtSearch(n, lo, hi) ==
    IF lo >= hi THEN lo
    ELSE LET mid == (lo + hi + 1) \div 2
         IN IF mid <= n \div mid THEN SqrtSearch(n, mid, hi)
            ELSE SqrtSearch(n, lo, mid - 1)

\* floor(sqrt(n)) for n >= 0
ISqrt(n) == IF n <= 0 THEN 0 ELSE SqrtSearch(n, 1, Min2(n, 46340))

RECURSIVE GCD(_, _)
GCD(a, b) == IF b = 0 THEN a ELSE GCD(b, a % b)

\* a <= k * sqrt(n), exactly, for k > 0 and n >= 0
LeqTimesSqrt(a, k, n) ==
    IF a <= 0 THEN TRUE
    ELSE LET r == ISqrt(n)
             g == GCD(a, k)
         IN IF r * r = n THEN a <= k * r
            ELSE (a \div g) * (a \div g) <= (k \div g) * (k \div g) * n

Pt(px, py) == [x |-> px, y |-> py]

----------------------------------------------------------------------------
(* Geometry kernel: geometry.ts *)

\* const tolerance = 0.1, as tenths
SatToleranceTenths == 1

\* One axis of the separating-axis test: the axis is normalised by its
\* length, both rectangles are projected, and the projections are compared
\* with the tolerance.  (maxA - minB) / |axis| <= tolerance is decided
\* without leaving the integers.
\* Mutant: only one of the two separation tests (maxA <= minB + tolerance)
SeparatedOnAxisOneSided(cornersA, cornersB, axis) ==
    LET len2  == axis.x * axis.x + axis.y * axis.y
        projA == {c.x * axis.x + c.y * axis.y : c \in Range(cornersA)}
        projB == {c.x * axis.x + c.y * axis.y : c \in Range(cornersB)}
    IN  LeqTimesSqrt(10 * (SetMax(projA) - SetMin(projB)), SatToleranceTenths * Scale, len2)

\* Mutant: the separation tests without the tolerance
SeparatedOnAxisNoTolerance(cornersA, cornersB, axis) ==
    LET projA == {c.x * axis.x + c.y * axis.y : c \in Range(cornersA)}
        projB == {c.x * axis.x + c.y * axis.y : c \in Range(cornersB)}
    IN  \/ SetMax(projA) <= SetMin(projB)
        \/ SetMax(projB) <= SetMin(projA)

SeparatedOnAxis(cornersA, cornersB, axis) ==
    LET len2  == axis.x * axis.x + axis.y * axis.y
        projA == {c.x * axis.x + c.y * axis.y : c \in Range(cornersA)}
        projB == {c.x * axis.x + c.y * axis.y : c \in Range(cornersB)}
        minA  == SetMin(projA)
        maxA  == SetMax(projA)
        minB  == SetMin(projB)
        maxB  == SetMax(projB)
    IN  \/ LeqTimesSqrt(10 * (maxA - minB), SatToleranceTenths * Scale, len2)
        \/ LeqTimesSqrt(10 * (maxB - minA), SatToleranceTenths * Scale, len2)

RectAxes(cornersA, cornersB) ==
    << Pt(cornersA[2].x - cornersA[1].x, cornersA[2].y - cornersA[1].y),
       Pt(cornersA[3].x - cornersA[2].x, cornersA[3].y - cornersA[2].y),
       Pt(cornersB[2].x - cornersB[1].x, cornersB[2].y - cornersB[1].y),
       Pt(cornersB[3].x - cornersB[2].x, cornersB[3].y - cornersB[2].y) >>

doRectanglesIntersect(cornersA, cornersB) ==
    LET axes == RectAxes(cornersA, cornersB)
    IN \A i \in 1..4 :
          \/ axes[i].x * axes[i].x + axes[i].y * axes[i].y = 0
          \/ ~SeparatedOnAxis(cornersA, cornersB, axes[i])

\* num / den * v for den # 0, the quotient reduced before the product
MulRatio(num, den, v) ==
    LET sg == IF den < 0 THEN -1 ELSE 1
        n  == sg * num
        d  == sg * den
        g  == GCD(Abs(n), d)
    IN ((n \div g) * v) \div (d \div g)

\* a number t = num / den lies in [0, 1]
RatioInUnitInterval(num, den) ==
    IF den > 0 THEN num >= 0 /\ num <= den ELSE num <= 0 /\ num >= den

PrevIndex(i, n) == IF i = 1 THEN n ELSE i - 1
NextIndex(i, n) == IF i = n THEN 1 ELSE i + 1

RECURSIVE ConcatPieces(_, _)
ConcatPieces(piece, n) == IF n = 0 THEN << >> ELSE ConcatPieces(piece, n - 1) \o piece[n]

isInsideEdge(point, edgeStart, edgeEnd) ==
    (edgeEnd.x - edgeStart.x) * (point.y - edgeStart.y)
        - (edgeEnd.y - edgeStart.y) * (point.x - edgeStart.x) >= 0

\* The intersection of the lines through p1 p2 and p3 p4: << >> is null
computeIntersection(p1, p2, p3, p4) ==
    LET denom == (p1.x - p2.x) * (p3.y - p4.y) - (p1.y - p2.y) * (p3.x - p4.x)
        tnum  == (p1.x - p3.x) * (p3.y - p4.y) - (p1.y - p3.y) * (p3.x - p4.x)
    IN IF denom = 0 THEN << >>
       ELSE << Pt(p1.x + MulRatio(tnum, denom, p2.x - p1.x),
                  p1.y + MulRatio(tnum, denom, p2.y - p1.y)) >>

\* One pass of the Sutherland-Hodgman loop: inputList against one clip edge
ClipByEdge(inputList, clipVertex1, clipVertex2) ==
    LET n == Len(inputList)
        piece == [i \in 1..n |->
            LET e == inputList[i]
                s == inputList[PrevIndex(i, n)]
            IN IF isInsideEdge(e, clipVertex1, clipVertex2)
               THEN (IF ~isInsideEdge(s, clipVertex1, clipVertex2)
                     THEN computeIntersection(s, e, clipVertex1, clipVertex2)
                     ELSE << >>) \o << e >>
               ELSE IF isInsideEdge(s, clipVertex1, clipVertex2)
                    THEN computeIntersection(s, e, clipVertex1, clipVertex2)
                    ELSE << >>]
    IN ConcatPieces(piece, n)

RECURSIVE ClipFrom(_, _, _)
ClipFrom(outputList, clipPolygon, i) ==
    IF i > Len(clipPolygon) \/ outputList = << >> THEN outputList
    ELSE Only({ ClipFrom(clipped, clipPolygon, i + 1) :
                  clipped \in { ClipByEdge(outputList, clipPolygon[i],
                                           clipPolygon[NextIndex(i, Len(clipPolygon))]) } })

clipPolygonByPolygon(subjectPolygon, clipPolygon) ==
    IF subjectPolygon = << >> \/ clipPolygon = << >> THEN << >>
    ELSE ClipFrom(subjectPolygon, clipPolygon, 1)

RECURSIVE ShoelaceSum(_, _)
ShoelaceSum(points, i) ==
    IF i = 0 THEN 0
    ELSE LET j == NextIndex(i, Len(points))
         IN ShoelaceSum(points, i - 1)
              + (points[i].x * points[j].y - points[j].x * points[i].y)

calculatePolygonArea(points) ==
    IF Len(points) < 3 THEN 0 ELSE Abs(ShoelaceSum(points, Len(points))) \div 2

\* The ray-casting condition of one edge (from vertex j to vertex i):
\* yi > py # yj > py and px < (xj - xi) * (py - yi) / (yj - yi) + xi
RayCrossesEdge(point, pi, pj) ==
    /\ (pi.y > point.y) # (pj.y > point.y)
    /\ LET dy == pj.y - pi.y
       IN IF dy > 0 THEN (point.x - pi.x) * dy < (pj.x - pi.x) * (point.y - pi.y)
          ELSE (point.x - pi.x) * dy > (pj.x - pi.x) * (point.y - pi.y)

\* Mutant: the edge from the last vertex back to the first is left out
RayCastOpenChain(point, pts) ==
    LET n == Len(pts)
    IN Cardinality({i \in 2..n : RayCrossesEdge(point, pts[i], pts[PrevIndex(i, n)])}) % 2 = 1

\* inside is toggled once per crossed edge
RayCastInside(point, pts) ==
    LET n == Len(pts)
    IN Cardinality({i \in 1..n : RayCrossesEdge(point, pts[i], pts[PrevIndex(i, n)])}) % 2 = 1

isPointInPolygon(point, polygonPoints) ==
    IF Len(polygonPoints) < 3 THEN FALSE ELSE RayCastInside(point, polygonPoints)

isPointInRectangle(point, rectangle) == RayCastInside(point, rectangle)

\* The intersection of the segments p1 p2 and p3 p4, ends included: << >> is null
lineIntersection(p1, p2, p3, p4) ==
    LET denom == (p1.x - p2.x) * (p3.y - p4.y) - (p1.y - p2.y) * (p3.x - p4.x)
        tnum  == (p1.x - p3.x) * (p3.y - p4.y) - (p1.y - p3.y) * (p3.x - p4.x)
        unum  == -((p1.x - p2.x) * (p1.y - p3.y) - (p1.y - p2.y) * (p1.x - p3.x))
    IN IF denom = 0 THEN << >>
       ELSE IF RatioInUnitInterval(tnum, denom) /\ RatioInUnitInterval(unum, denom)
            THEN << Pt(p1.x + MulRatio(tnum, denom, p2.x - p1.x),
                       p1.y + MulRatio(tnum, denom, p2.y - p1.y)) >>
            ELSE << >>

doLinesIntersect(point1, point2, point3, point4) ==
    lineIntersection(point1, point2, point3, point4) # << >>

\* The first crossing of the polygon along the two long edges of the plank,
\* measured from its back end
NoDistance == -1

RayHitDistances(rayStart, rayEnd, polygonPoints) ==
    LET n == Len(polygonPoints)
    IN { ISqrt((h[1].x - rayStart.x) * (h[1].x - rayStart.x)
               + (h[1].y - rayStart.y) * (h[1].y - rayStart.y)) :
           h \in { lineIntersection(rayStart, rayEnd, polygonPoints[i],
                                    polygonPoints[NextIndex(i, n)]) : i \in 1..n }
                 \ { << >> } }

\* Mutant: the rays are cast from the middle of the plank, not from its back end
IntersectionDistanceFromCentre(center, lengthPx, widthPx, cos, sin, polygonPoints) ==
    LET halfWidth == widthPx \div 2
        top    == Pt(center.x - halfWidth * sin, center.y + halfWidth * cos)
        bottom == Pt(center.x + halfWidth * sin, center.y - halfWidth * cos)
        rayEnd(start) == Pt(start.x + lengthPx * cos, start.y + lengthPx * sin)
        minIntersectionDistance ==
            SetMin({lengthPx} \cup RayHitDistances(top, rayEnd(top), polygonPoints)
                              \cup RayHitDistances(bottom, rayEnd(bottom), polygonPoints))
    IN IF minIntersectionDistance < lengthPx THEN minIntersectionDistance ELSE NoDistance

calculateIntersectionDistance(center, lengthPx, widthPx, cos, sin, polygonPoints) ==
    LET halfWidth == widthPx \div 2
        top    == Pt(center.x - halfWidth * sin - (lengthPx \div 2) * cos,
                     center.y + halfWidth * cos - (lengthPx \div 2) * sin)
        bottom == Pt(center.x + halfWidth * sin - (lengthPx \div 2) * cos,
                     center.y - halfWidth * cos - (lengthPx \div 2) * sin)
        rayEnd(start) == Pt(start.x + lengthPx * cos, start.y + lengthPx * sin)
        minIntersectionDistance ==
            SetMin({lengthPx} \cup RayHitDistances(top, rayEnd(top), polygonPoints)
                              \cup RayHitDistances(bottom, rayEnd(bottom), polygonPoints))
    IN IF minIntersectionDistance < lengthPx THEN minIntersectionDistance ELSE NoDistance

----------------------------------------------------------------------------
(* Plank geometry: plank.ts *)

\* Math.cos and Math.sin of the rotation (degrees); planks of the model have rotation 0
CosOf(rotation) == IF rotation = 0 THEN 1 ELSE 0
SinOf(rotation) == 0

\* A plank without its optional fields: isSpare, isArbitraryShape and
\* isMultiLineCut undefined (FALSE), originalLength undefined (0), shape and
\* cutLines undefined (<< >>)
NewPlank(id, px, py, rotation, length, width) ==
    [id |-> id, x |-> px, y |-> py, rotation |-> rotation,
     length |-> length, width |-> width,
     isSpare |-> FALSE, originalLength |-> 0, shape |-> << >>,
     isArbitraryShape |-> FALSE, isMultiLineCut |-> FALSE, cutLines |-> << >>]

\* An id is the base (row, plank in row, running number; << >> for a plank
\* drawn by the caller), the suffix a cut appends and the Date.now() stamp of a spare
PlankIdOf(base) == [base |-> base, suffix |-> "", stamp |-> 0]
IdWithSuffix(id, suffix) == [id EXCEPT !.suffix = suffix]
SpareId(id, stamp) == [id EXCEPT !.suffix = "spare", !.stamp = stamp]

\* plank.originalLength || plank.length
OriginalLengthOr(plank) ==
    IF plank.originalLength # 0 THEN plank.originalLength ELSE plank.length

getPlankCorners(plank) ==
    LET halfLength == mmToPixels(plank.length) \div 2
        halfWidth  == mmToPixels(plank.width) \div 2
        cos == CosOf(plank.rotation)
        sin == SinOf(plank.rotation)
    IN << Pt(plank.x + (-halfLength * cos + halfWidth * sin),
             plank.y + (-halfLength * sin - halfWidth * cos)),
          Pt(plank.x + (halfLength * cos + halfWidth * sin),
             plank.y + (halfLength * sin - halfWidth * cos)),
          Pt(plank.x + (halfLength * cos - halfWidth * sin),
             plank.y + (halfLength * sin + halfWidth * cos)),
          Pt(plank.x + (-halfLength * cos - halfWidth * sin),
             plank.y + (-halfLength * sin + halfWidth * cos)) >>

doPlanksIntersect(plankA, plankB) ==
    doRectanglesIntersect(getPlankCorners(plankA), getPlankCorners(plankB))

\* Mutant: the earlier revision of the test, which looks at the edges only
isPlankInPolygonEdgesOnly(plank, polygonPoints) ==
    LET corners == getPlankCorners(plank)
        n == Len(polygonPoints)
    IN \A i \in 1..n : \A c \in 1..4 :
          ~doLinesIntersect(polygonPoints[i], polygonPoints[NextIndex(i, n)],
                            corners[c], corners[NextIndex(c, 4)])

isPlankInPolygon(plank, polygonPoints) ==
    LET corners == getPlankCorners(plank)
        n == Len(polygonPoints)
    IN /\ \E c \in 1..4 : isPointInPolygon(corners[c], polygonPoints)
       /\ \A i \in 1..n : \A c \in 1..4 :
             ~doLinesIntersect(polygonPoints[i], polygonPoints[NextIndex(i, n)],
                               corners[c], corners[NextIndex(c, 4)])

plankOverlapsPolygon(plank, polygonPoints) ==
    LET plankCorners == getPlankCorners(plank)
        hasPointInside ==
            \/ \E c \in 1..4 : isPointInPolygon(plankCorners[c], polygonPoints)
            \/ isPointInPolygon(Pt(plank.x, plank.y), polygonPoints)
        polygonInPlank ==
            \E i \in 1..Len(polygonPoints) : isPointInRectangle(polygonPoints[i], plankCorners)
    IN hasPointInside \/ polygonInPlank

plankCollidesWithExisting(plank, existingPlanks, gapPx) ==
    \E i \in 1..Len(existingPlanks) :
        LET existing == existingPlanks[i]
            expandedExisting ==
                [existing EXCEPT !.length = existing.length + pixelsToMm(gapPx),
                                 !.width  = existing.width + pixelsToMm(gapPx)]
        IN doPlanksIntersect(plank, expandedExisting)

\* The placeholder: no spare is ever found suitable (<< >> is null)
findSuitableSpare(testPlank, polygonPoints, availableSpares) == << >>

\* The % of JavaScript: the result has the sign of the dividend
JsMod(a, b) == IF a >= 0 THEN a % b ELSE -((-a) % b)

CeilDiv(a, b) == (a + b - 1) \div b

calculateOptimalRowOffset(rowIndex, minOffsetPx, fullPlankLengthPx, availableSpares) ==
    LET modular == JsMod(rowIndex * minOffsetPx, fullPlankLengthPx)
        n == Len(availableSpares)
        spareLengths == [i \in 1..n |-> mmToPixels(availableSpares[i].length)]
        count(l) == Cardinality({i \in 1..n : spareLengths[i] = l})
        maxCount == SetMax({0} \cup {count(spareLengths[i]) : i \in 1..n})
        \* the first length inserted in the map that has the largest count
        firstIdx == SetMin({i \in 1..n : count(spareLengths[i]) = maxCount})
        mostCommonLength == IF n = 0 THEN 0 ELSE spareLengths[firstIdx]
    IN IF Abs(rowIndex) <= 1 THEN modular
       ELSE IF n > 0 /\ mostCommonLength > 0 /\ maxCount >= 2
            THEN IF mostCommonLength >= minOffsetPx THEN mostCommonLength
                 ELSE mostCommonLength * CeilDiv(minOffsetPx, mostCommonLength)
            ELSE modular

cutPlank(plank, cutLengthMm, stamp) ==
    [fitted |-> [plank EXCEPT !.id = IdWithSuffix(plank.id, "fitted"), !.length = cutLengthMm],
     spare  |-> [plank EXCEPT !.id = SpareId(plank.id, stamp),
                              !.length = plank.length - cutLengthMm,
                              !.isSpare = TRUE,
                              !.originalLength = OriginalLengthOr(plank)]]

----------------------------------------------------------------------------
(* Cutting strategies: plankCutting.ts *)

\* intersectionDistance >= lengthPx * 0.95, as a percentage
MaxCutPercent == 95
\* const tolerance = 1: 1 px around a polygon edge when counting the edges at the plank
EdgeTolerancePx == 1
\* const offsetMm = 5
OffsetMm == 5

BoundsOf(corners) ==
    [minX |-> SetMin({c.x : c \in Range(corners)}), maxX |-> SetMax({c.x : c \in Range(corners)}),
     minY |-> SetMin({c.y : c \in Range(corners)}), maxY |-> SetMax({c.y : c \in Range(corners)})]

\* The polygon edges whose bounding box, widened by the tolerance, meets the bounds
EdgesAtBounds(b, polygonPoints, tolerance) ==
    LET n == Len(polygonPoints)
    IN { i \in 1..n :
           LET p1 == polygonPoints[i]
               p2 == polygonPoints[NextIndex(i, n)]
           IN /\ Max2(Min2(p1.x, p2.x) - tolerance, b.minX) <= Min2(Max2(p1.x, p2.x) + tolerance, b.maxX)
              /\ Max2(Min2(p1.y, p2.y) - tolerance, b.minY) <= Min2(Max2(p1.y, p2.y) + tolerance, b.maxY) }

\* if (intersectingEdges > 1): more than one polygon edge at the plank
\* Mutant: the number of polygon edges at the plank is not looked at
TooManyEdgesNever(plank, polygonPoints) == FALSE

TooManyEdges(plank, polygonPoints) ==
    LET lengthPx == mmToPixels(plank.length)
        widthPx  == mmToPixels(plank.width)
        plankBounds == [minX |-> plank.x - lengthPx \div 2, maxX |-> plank.x + lengthPx \div 2,
                        minY |-> plank.y - widthPx \div 2, maxY |-> plank.y + widthPx \div 2]
        intersectingEdges ==
            Cardinality(EdgesAtBounds(plankBounds, polygonPoints, EdgeTolerancePx * Scale))
    IN intersectingEdges > 1

\* Mutant: the spare keeps the length of the uncut plank
LinearCutPiecesSpareUncut(plank, cutLengthMm, fittedX, fittedY, spareX, spareY) ==
    [fitted |-> [plank EXCEPT !.id = IdWithSuffix(plank.id, "fitted"),
                              !.length = cutLengthMm, !.x = fittedX, !.y = fittedY],
     spare  |-> [plank EXCEPT !.id = SpareId(plank.id, now),
                              !.x = spareX, !.y = spareY,
                              !.isSpare = TRUE,
                              !.originalLength = OriginalLengthOr(plank)]]

\* The two pieces of a linear cut
LinearCutPieces(plank, cutLengthMm, fittedX, fittedY, spareX, spareY) ==
    [fitted |-> [plank EXCEPT !.id = IdWithSuffix(plank.id, "fitted"),
                              !.length = cutLengthMm, !.x = fittedX, !.y = fittedY],
     spare  |-> [plank EXCEPT !.id = SpareId(plank.id, now),
                              !.length = plank.length - cutLengthMm,
                              !.x = spareX, !.y = spareY,
                              !.isSpare = TRUE,
                              !.originalLength = OriginalLengthOr(plank)]]

\* tryLinearCut once the intersection distance is known; << >> is null
LinearCutAt(plank, polygonPoints, intersectionDistance) ==
    LET lengthPx == mmToPixels(plank.length)
        widthPx  == mmToPixels(plank.width)
        cos == CosOf(plank.rotation)
        sin == SinOf(plank.rotation)
        offsetPx == mmToPixels(OffsetMm * Scale)
        negativeAdjustedDistance == intersectionDistance - offsetPx
        negativeCutLengthMm == pixelsToMm(negativeAdjustedDistance)
        negativeTestPlank ==
            [plank EXCEPT !.length = negativeCutLengthMm,
                          !.x = plank.x - ((lengthPx - negativeAdjustedDistance) \div 2) * cos,
                          !.y = plank.y - ((lengthPx - negativeAdjustedDistance) \div 2) * sin]
        positiveAdjustedDistance == intersectionDistance + offsetPx
        positiveCutLengthMm == pixelsToMm(lengthPx - positiveAdjustedDistance)
        positiveTestPlank ==
            [plank EXCEPT !.length = positiveCutLengthMm,
                          !.x = plank.x + ((mmToPixels(positiveAdjustedDistance)
                                             + positiveAdjustedDistance) \div 2) * cos,
                          !.y = plank.y + ((mmToPixels(positiveCutLengthMm)
                                             + positiveAdjustedDistance) \div 2) * sin]
    IN IF \/ intersectionDistance = NoDistance
          \/ intersectionDistance = 0
          \/ 100 * intersectionDistance >= MaxCutPercent * lengthPx
       THEN << >>
       ELSE IF TooManyEdges(plank, polygonPoints) THEN << >>
       ELSE IF negativeCutLengthMm > 0 /\ isPlankInPolygon(negativeTestPlank, polygonPoints)
       THEN << LinearCutPieces(plank, negativeCutLengthMm,
                   negativeTestPlank.x, negativeTestPlank.y,
                   plank.x + ((lengthPx + negativeAdjustedDistance) \div 2) * cos,
                   plank.y + ((lengthPx + negativeAdjustedDistance) \div 2) * sin) >>
       ELSE IF positiveCutLengthMm > 0 /\ isPlankInPolygon(positiveTestPlank, polygonPoints)
       THEN << LinearCutPieces(plank, positiveCutLengthMm,
                   positiveTestPlank.x, positiveTestPlank.y,
                   plank.x - ((lengthPx - positiveAdjustedDistance) \div 2) * cos,
                   plank.y - ((lengthPx - positiveAdjustedDistance) \div 2) * sin) >>
       ELSE << >>

tryLinearCut(plank, polygonPoints) ==
    Only({ LinearCutAt(plank, polygonPoints, intersectionDistance) :
             intersectionDistance \in
               { calculateIntersectionDistance(Pt(plank.x, plank.y), mmToPixels(plank.length),
                     mmToPixels(plank.width), CosOf(plank.rotation), SinOf(plank.rotation),
                     polygonPoints) } })

\* Math.abs(p1.y - p2.y) < 1 and Math.abs(p1.x - p2.x) < 1
IsNearHorizontal(p1, p2) == Abs(p1.y - p2.y) < Scale
IsNearVertical(p1, p2) == Abs(p1.x - p2.x) < Scale

\* if (cutLength > 5)
MinCutLinePx == 5
\* cutArea < originalArea * 0.15, as 3 / 20
MinCutAreaNum == 3
MinCutAreaDen == 20
\* createSpareFromRemainingArea: spareAreaPx < 1000, spareLength < 200, spareWidth < 50
MinSpareAreaPx == 1000
MinSpareLength == 200
MinSpareWidth == 50

\* The part of a polygon edge kept as a cut line: a near-horizontal or
\* near-vertical edge is trimmed to the bounds of the plank
CutLineOf(p1, p2, b) ==
    IF IsNearHorizontal(p1, p2)
    THEN << Pt(Max2(Min2(p1.x, p2.x), b.minX), p1.y), Pt(Min2(Max2(p1.x, p2.x), b.maxX), p1.y) >>
    ELSE IF IsNearVertical(p1, p2)
    THEN << Pt(p1.x, Max2(Min2(p1.y, p2.y), b.minY)), Pt(p1.x, Min2(Max2(p1.y, p2.y), b.maxY)) >>
    ELSE << p1, p2 >>

\* cutLength > 5, on the squares
CutLineLongEnough(line) ==
    (line[2].x - line[1].x) * (line[2].x - line[1].x)
      + (line[2].y - line[1].y) * (line[2].y - line[1].y)
        > (MinCutLinePx * Scale) * (MinCutLinePx * Scale)

RECURSIVE SumX(_, _)
SumX(points, i) == IF i = 0 THEN 0 ELSE SumX(points, i - 1) + points[i].x
RECURSIVE SumY(_, _)
SumY(points, i) == IF i = 0 THEN 0 ELSE SumY(points, i - 1) + points[i].y

\* The order of Math.atan2(v.y, v.x) on (-pi, pi], decided on the integers
AngleRegion(v) ==
    IF v.y < 0 THEN 0 ELSE IF v.y = 0 /\ v.x >= 0 THEN 1 ELSE IF v.y > 0 THEN 2 ELSE 3

AngleLess(u, v) ==
    \/ AngleRegion(u) < AngleRegion(v)
    \/ /\ AngleRegion(u) = AngleRegion(v)
       /\ AngleRegion(u) \in {0, 2}
       /\ u.x * v.y - u.y * v.x > 0

\* shapePoints.sort by the angle about the centre (the mean of the points); the
\* sort is stable.  n * p - sum has the direction of p - centre.
SortByAngleAboutCentre(points) ==
    LET n == Len(points)
        sx == SumX(points, n)
        sy == SumY(points, n)
        v(i) == Pt(n * points[i].x - sx, n * points[i].y - sy)
        rank(i) == 1 + Cardinality({j \in 1..n : AngleLess(v(j), v(i))})
                     + Cardinality({j \in 1..(i - 1) : ~AngleLess(v(j), v(i)) /\ ~AngleLess(v(i), v(j))})
    IN [k \in 1..n |-> points[CHOOSE i \in 1..n : rank(i) = k]]

\* buildMultiLineCutShape is called with no intersections (intersections = []),
\* so the shape points are the corners of the plank inside the polygon; << >> is null
buildMultiLineCutShape(plank, polygonPoints, cutLines) ==
    LET plankCorners == getPlankCorners(plank)
        insideCorners == SelectSeq(plankCorners, LAMBDA c : isPointInPolygon(c, polygonPoints))
    IN IF Len(insideCorners) < 3 THEN << >> ELSE SortByAngleAboutCentre(insideCorners)

\* << >> is null
createSpareFromRemainingArea(originalPlank, spareAreaPx) ==
    LET spareLength == Min2(ISqrt(spareAreaPx), originalPlank.length)
        spareWidth  == Min2(spareAreaPx \div spareLength, originalPlank.width)
    IN IF spareAreaPx < MinSpareAreaPx * Scale * Scale THEN << >>
       ELSE IF spareLength < MinSpareLength * Scale \/ spareWidth < MinSpareWidth * Scale THEN << >>
       ELSE << [originalPlank EXCEPT !.id = SpareId(originalPlank.id, now),
                                     !.length = pixelsToMm(spareLength),
                                     !.width = pixelsToMm(spareWidth),
                                     !.isSpare = TRUE,
                                     !.originalLength = OriginalLengthOr(originalPlank)] >>

\* The shape in the frame of the plank (rotation 0: a translation)
RelativeShape(shape, plank) ==
    LET cos == CosOf(plank.rotation)
        sin == SinOf(plank.rotation)
    IN [i \in DOMAIN shape |->
          Pt((shape[i].x - plank.x) * cos + (shape[i].y - plank.y) * sin,
             -(shape[i].x - plank.x) * sin + (shape[i].y - plank.y) * cos)]

\* tryMultiLineCut once the cut shape is built; << >> is null, and the spare of
\* the result is << >> when there is none
MultiLineCutOf(plank, cutLines, cutShape) ==
    LET cutArea == calculatePolygonArea(cutShape)
        originalArea == mmToPixels(plank.length) * mmToPixels(plank.width)
    IN IF Len(cutShape) < 3 THEN << >>
       ELSE IF MinCutAreaDen * cutArea < MinCutAreaNum * originalArea THEN << >>
       ELSE << [fitted |-> [plank EXCEPT !.id = IdWithSuffix(plank.id, "multicut"),
                                         !.isArbitraryShape = TRUE,
                                         !.isMultiLineCut = TRUE,
                                         !.shape = RelativeShape(cutShape, plank),
                                         !.cutLines = cutLines,
                                         !.originalLength = OriginalLengthOr(plank)],
                spare  |-> createSpareFromRemainingArea(plank, originalArea - cutArea)] >>

tryMultiLineCut(plank, polygonPoints) ==
    LET lengthPx == mmToPixels(plank.length)
        widthPx  == mmToPixels(plank.width)
        plankBounds == BoundsOf(getPlankCorners(plank))
        n == Len(polygonPoints)
        p1(i) == polygonPoints[i]
        p2(i) == polygonPoints[NextIndex(i, n)]
        kept(i) == /\ i \in EdgesAtBounds(plankBounds, polygonPoints, 0)
                   /\ CutLineLongEnough(CutLineOf(p1(i), p2(i), plankBounds))
        intersectingEdges == SelectSeq([i \in 1..n |-> i], kept)
        hasHorizontalEdges ==
            \E k \in DOMAIN intersectingEdges :
                IsNearHorizontal(p1(intersectingEdges[k]), p2(intersectingEdges[k]))
        hasVerticalEdges ==
            \E k \in DOMAIN intersectingEdges :
                IsNearVertical(p1(intersectingEdges[k]), p2(intersectingEdges[k]))
        cutLines == [k \in DOMAIN intersectingEdges |->
                        CutLineOf(p1(intersectingEdges[k]), p2(intersectingEdges[k]), plankBounds)]
    IN IF Len(intersectingEdges) < 2 THEN << >>
       ELSE IF ~(hasHorizontalEdges /\ hasVerticalEdges) THEN << >>
       ELSE Only({ MultiLineCutOf(plank, cutLines, cutShape) :
                     cutShape \in { buildMultiLineCutShape(plank, polygonPoints, cutLines) } })

\* fitPlankByShapeCutting: minAreaRatio 0.005 or 0.02 (as 1 / 200 and 1 / 50)
\* and minAbsoluteArea 10 or 50, by whether the plank has more than half the
\* area of the polygon
MinAreaDivisorLargePlank == 200
MinAreaDivisorSmallPlank == 50
MinAbsoluteAreaLargePlank == 10
MinAbsoluteAreaSmallPlank == 50

\* Mutant: the clipped shape is accepted whatever its area
ShapeCutOfAnyArea(plank, polygonPoints, clippedShape) ==
    IF Len(clippedShape) < 3 THEN << >>
    ELSE IF ~(\A i \in DOMAIN clippedShape : isPointInPolygon(clippedShape[i], polygonPoints))
    THEN << >>
    ELSE << [plank EXCEPT !.id = IdWithSuffix(plank.id, "shaped"),
                          !.isArbitraryShape = TRUE,
                          !.shape = RelativeShape(clippedShape, plank),
                          !.originalLength = OriginalLengthOr(plank)] >>

\* fitPlankByShapeCutting once the plank is clipped; << >> is null
ShapeCutOf(plank, polygonPoints, clippedShape) ==
    LET clippedArea  == calculatePolygonArea(clippedShape)
        originalArea == mmToPixels(plank.length) * mmToPixels(plank.width)
        polygonArea  == calculatePolygonArea(polygonPoints)
        largePlank   == 2 * originalArea > polygonArea
        minAreaDivisor  == IF largePlank THEN MinAreaDivisorLargePlank ELSE MinAreaDivisorSmallPlank
        minAbsoluteArea == IF largePlank THEN MinAbsoluteAreaLargePlank ELSE MinAbsoluteAreaSmallPlank
        allPointsInside ==
            \A i \in DOMAIN clippedShape : isPointInPolygon(clippedShape[i], polygonPoints)
    IN IF Len(clippedShape) < 3 THEN << >>
       ELSE IF \/ clippedArea * minAreaDivisor < originalArea
               \/ clippedArea < minAbsoluteArea * Scale * Scale
       THEN << >>
       ELSE IF ~allPointsInside THEN << >>
       ELSE << [plank EXCEPT !.id = IdWithSuffix(plank.id, "shaped"),
                             !.isArbitraryShape = TRUE,
                             !.shape = RelativeShape(clippedShape, plank),
                             !.originalLength = OriginalLengthOr(plank)] >>

fitPlankByShapeCutting(plank, polygonPoints) ==
    Only({ ShapeCutOf(plank, polygonPoints, clippedShape) :
             clippedShape \in { clipPolygonByPolygon(getPlankCorners(plank), polygonPoints) } })

\* spareArea < 50 * 50 (mm^2)
MinSpareSideMm == 50

\* Mutant: the spare of a shape cut is the whole candidate again
SpareFromCutWholePlank(originalPlank, fittedPlank) ==
    << [originalPlank EXCEPT !.id = SpareId(originalPlank.id, now), !.isSpare = TRUE,
                             !.originalLength = OriginalLengthOr(originalPlank)] >>

\* << >> is null
createSpareFromCut(originalPlank, fittedPlank) ==
    LET originalArea == originalPlank.length * originalPlank.width
        fittedArea ==
            calculatePolygonArea(fittedPlank.shape) * (PixelsPerMmDen * PixelsPerMmDen)
        spareArea == originalArea - fittedArea
        spareLength == ISqrt(spareArea)
        spareWidth == Min2(originalPlank.width, spareLength)
    IN IF ~fittedPlank.isArbitraryShape \/ fittedPlank.shape = << >> THEN << >>
       ELSE IF spareArea < (MinSpareSideMm * Scale) * (MinSpareSideMm * Scale) THEN << >>
       ELSE << [originalPlank EXCEPT !.id = SpareId(originalPlank.id, now),
                                     !.length = spareLength,
                                     !.width = spareWidth,
                                     !.isSpare = TRUE,
                                     !.originalLength = OriginalLengthOr(originalPlank)] >>

----------------------------------------------------------------------------
(* The strategy chain: attemptCuttingStrategies *)

hasCollisionWithExisting(plank, existingPlanks) ==
    \E i \in 1..Len(existingPlanks) : doPlanksIntersect(plank, existingPlanks[i])

NoCut == [method |-> "none", fitted |-> << >>, spare |-> << >>]

\* Mutant: the shape cut is tried before the linear and the multi-line cut
attemptCuttingStrategiesShapeFirst(plank, polygonPoints, existingPlanks, gapPx) ==
    LET linearCutResult == tryLinearCut(plank, polygonPoints)
        multiLineCutResult == tryMultiLineCut(plank, polygonPoints)
        shapeCutPlank == fitPlankByShapeCutting(plank, polygonPoints)
    IN IF shapeCutPlank # << >> /\ ~hasCollisionWithExisting(plank, existingPlanks)
       THEN [method |-> "shape", fitted |-> shapeCutPlank,
             spare  |-> createSpareFromCut(plank, shapeCutPlank[1])]
       ELSE IF /\ linearCutResult # << >>
               /\ ~plankCollidesWithExisting(linearCutResult[1].fitted, existingPlanks, gapPx)
       THEN [method |-> "linear", fitted |-> << linearCutResult[1].fitted >>,
             spare  |-> << linearCutResult[1].spare >>]
       ELSE IF multiLineCutResult # << >> /\ ~hasCollisionWithExisting(plank, existingPlanks)
       THEN [method |-> "multi-line", fitted |-> << multiLineCutResult[1].fitted >>,
             spare  |-> multiLineCutResult[1].spare]
       ELSE NoCut

\* Linear, then multi-line, then shape: the first that gives a piece that does
\* not collide; fitted and spare are << >> when there is none
attemptCuttingStrategies(plank, polygonPoints, existingPlanks, gapPx) ==
    LET linearCutResult == tryLinearCut(plank, polygonPoints)
        multiLineCutResult == tryMultiLineCut(plank, polygonPoints)
        shapeCutPlank == fitPlankByShapeCutting(plank, polygonPoints)
    IN IF /\ linearCutResult # << >>
          /\ ~plankCollidesWithExisting(linearCutResult[1].fitted, existingPlanks, gapPx)
       THEN [method |-> "linear", fitted |-> << linearCutResult[1].fitted >>,
             spare  |-> << linearCutResult[1].spare >>]
       ELSE IF multiLineCutResult # << >> /\ ~hasCollisionWithExisting(plank, existingPlanks)
       THEN [method |-> "multi-line", fitted |-> << multiLineCutResult[1].fitted >>,
             spare  |-> multiLineCutResult[1].spare]
       ELSE IF shapeCutPlank # << >> /\ ~hasCollisionWithExisting(plank, existingPlanks)
       THEN [method |-> "shape", fitted |-> shapeCutPlank,
             spare  |-> createSpareFromCut(plank, shapeCutPlank[1])]
       ELSE NoCut

----------------------------------------------------------------------------
(* Harness for doRectanglesIntersect: two rectangles are drawn, the second *)
(* is moved toward the first in steps of one unit (1/Scale px), and the    *)
(* test is applied in both argument orders.                                *)

\* Rectangles are drawn on a lattice of whole pixels: origins 0..MaxRectOrigin,
\* sides 1..MaxRectSide; the second rectangle is moved by at most MaxShift units.
MaxRectOrigin == 2
MaxRectSide == 2
MaxShift == 6

AxisRect(x0, y0, x1, y1) == << Pt(x0, y0), Pt(x1, y0), Pt(x1, y1), Pt(x0, y1) >>

\* A square standing on a corner (rotated by 45 degrees), centre c, half-diagonal r
Diamond(cx, cy, r) == << Pt(cx, cy - r), Pt(cx + r, cy), Pt(cx, cy + r), Pt(cx - r, cy) >>

AxisRects ==
    { AxisRect(x0 * Scale, y0 * Scale, (x0 + w) * Scale, (y0 + h) * Scale) :
        x0 \in 0..MaxRectOrigin, y0 \in 0..MaxRectOrigin,
        w \in 1..MaxRectSide, h \in 1..MaxRectSide }

Diamonds ==
    { Diamond(cx * Scale, cy * Scale, Scale) : cx \in 1..MaxRectOrigin, cy \in 1..MaxRectOrigin }

RectInputs == AxisRects \cup Diamonds

Translate(corners, dx, dy) == [i \in DOMAIN corners |-> Pt(corners[i].x + dx, corners[i].y + dy)]

Sgn(n) == IF n > 0 THEN 1 ELSE IF n < 0 THEN -1 ELSE 0

MinX(corners) == SetMin({c.x : c \in Range(corners)})
MaxX(corners) == SetMax({c.x : c \in Range(corners)})
MinY(corners) == SetMin({c.y : c \in Range(corners)})
MaxY(corners) == SetMax({c.y : c \in Range(corners)})

IsAxisAligned(c) ==
    /\ c[1].y = c[2].y /\ c[2].x = c[3].x /\ c[3].y = c[4].y /\ c[4].x = c[1].x
    /\ c[1].x < c[2].x /\ c[2].y < c[3].y

\* Unit step that moves B toward A: the sign of the offset between the centres
TowardX(A, B) == Sgn((MinX(A) + MaxX(A)) - (MinX(B) + MaxX(B)))
TowardY(A, B) == Sgn((MinY(A) + MaxY(A)) - (MinY(B) + MaxY(B)))

NoRectRes == [checked |-> FALSE, ab |-> FALSE, ba |-> FALSE]

RectInit ==
    /\ pc = "rect"
    /\ rectA \in RectInputs
    /\ rectB \in RectInputs
    /\ rectShift = 0
    /\ rectRes = NoRectRes
    /\ room = << >>
    /\ candidate = << >>
    /\ cutResult = << >>
    /\ now = 0
    /\ dims = << >> /\ seed = << >> /\ planks = << >> /\ spares = << >>
    /\ idCounter = 0 /\ row = 0 /\ rowSt = << >> /\ attempts = 0
    /\ callArgs = << >> /\ callResult = << >>

\* Move B one unit toward A (on every axis on which the centres differ).
RectShiftToward ==
    /\ pc = "rect"
    /\ rectShift < MaxShift
    /\ IsAxisAligned(rectA) /\ IsAxisAligned(rectB)
    /\ rectB' = Translate(rectB, TowardX(rectA, rectB), TowardY(rectA, rectB))
    /\ rectShift' = rectShift + 1
    /\ rectRes' = NoRectRes
    /\ UNCHANGED <<callVars, rectA, pc, room, cutVars, tessVars, now>>

\* Apply the test in both argument orders.
RectCheck ==
    /\ pc = "rect"
    /\ ~rectRes.checked
    /\ rectRes' = [checked |-> TRUE,
                   ab |-> doRectanglesIntersect(rectA, rectB),
                   ba |-> doRectanglesIntersect(rectB, rectA)]
    /\ UNCHANGED <<callVars, rectA, rectB, rectShift, pc, room, cutVars, tessVars, now>>

RectNext == RectShiftToward \/ RectCheck

SpecRect == RectInit /\ [][RectNext]_vars

\* The second rectangle as it was drawn, before it was moved
RectB0 ==
    Translate(rectB, -rectShift * TowardX(rectA, rectB), -rectShift * TowardY(rectA, rectB))

XTouch(A, B) == MaxX(A) = MinX(B) \/ MaxX(B) = MinX(A)
YTouch(A, B) == MaxY(A) = MinY(B) \/ MaxY(B) = MinY(A)
XOverlap(A, B) == Min2(MaxX(A), MaxX(B)) > Max2(MinX(A), MinX(B))
YOverlap(A, B) == Min2(MaxY(A), MaxY(B)) > Max2(MinY(A), MinY(B))

\* Axis-aligned rectangles whose interiors are disjoint and that share (part
\* of) exactly one edge, or only a corner
SharesEdgeOrCorner(A, B) ==
    /\ IsAxisAligned(A) /\ IsAxisAligned(B)
    /\ \/ XTouch(A, B) /\ YOverlap(A, B)
       \/ YTouch(A, B) /\ XOverlap(A, B)
       \/ XTouch(A, B) /\ YTouch(A, B)

\* const tolerance = 0.1 in units
SatToleranceUnits == (SatToleranceTenths * Scale) \div 10

\* C9: doRectanglesIntersect gives the same answer for (A, B) and for (B, A),
\* for every pair of rectangles drawn (axis-aligned or standing on a corner,
\* touching, overlapping, apart, moved by fractions of a pixel).
C9_Symmetric == rectRes.checked => (rectRes.ab = rectRes.ba)

\* C9 witness: a pair with a corner-standing rectangle that is found to overlap
C9_Witness ==
    /\ rectRes.checked /\ rectRes.ab
    /\ ~IsAxisAligned(rectA) /\ IsAxisAligned(rectB)

----------------------------------------------------------------------------
(* Harness for the strategy chain (the cutting test scenarios): a room and *)
(* a candidate plank are drawn, and the chain is applied with no placed    *)
(* planks and gap 0.                                                       *)

\* A number of whole pixels or millimetres in units
Units(v) == v * Scale

\* The polygon of the linear-cut scenarios
ReferenceRoom == AxisRect(Units(100), Units(100), Units(350), Units(200))
\* The polygon of the L-shaped scenario; its reflex corner is the fourth vertex
LShapedRoom ==
    << Pt(Units(100), Units(100)), Pt(Units(250), Units(100)), Pt(Units(250), Units(175)),
       Pt(Units(175), Units(175)), Pt(Units(175), Units(250)), Pt(Units(100), Units(250)) >>
\* The polygon of the plank-outside scenario
SquareRoom == AxisRect(Units(100), Units(100), Units(200), Units(200))

TestPlank(px, py, lengthMm, widthMm) ==
    NewPlank(PlankIdOf(<< >>), Units(px), Units(py), 0, Units(lengthMm), Units(widthMm))

LinearRightCandidate == TestPlank(300, 150, 1200, 240)
LinearLeftCandidate == TestPlank(150, 150, 1200, 240)
LShapedCandidate == TestPlank(200, 175, 800, 200)
OutsideCandidate == TestPlank(300, 300, 100, 24)

\* Candidates are drawn on lattices around the scenarios: RefColumns columns
\* 10 px apart along the reference room, LRows rows 1 px apart across the
\* reflex corner of the L-shaped room, SquareSteps steps of 20 px and 10 px
\* around the square room; Date.now() is one of 0..MaxNow.
RefColumns == 36
LRows == 19
SquareSteps == 9
MaxNow == 1

RefInputs ==
    { [room |-> ReferenceRoom, plank |-> TestPlank(50 + 10 * k, py, 1200, 240)] :
        k \in 0..RefColumns, py \in {112, 150} }

LInputs ==
    { [room |-> LShapedRoom, plank |-> TestPlank(px, 165 + j, 800, 200)] :
        px \in {140, 160, 180, 200, 220}, j \in 0..(LRows + 1) }

SquareInputs ==
    { [room |-> SquareRoom, plank |-> TestPlank(60 + 20 * i, 70 + 10 * j, 400, 200)] :
        i \in 0..SquareSteps, j \in 0..(2 * SquareSteps) }

ScenarioInputs ==
    { [room |-> ReferenceRoom, plank |-> LinearRightCandidate],
      [room |-> ReferenceRoom, plank |-> LinearLeftCandidate],
      [room |-> LShapedRoom, plank |-> LShapedCandidate],
      [room |-> SquareRoom, plank |-> OutsideCandidate] }

\* Candidates whose near end or far end lies up to MaxWallStep px inside a
\* side wall of the reference room
MaxWallStep == 9

NearWallInputs ==
    { [room |-> ReferenceRoom, plank |-> TestPlank(px + k, 150, 1200, 240)] :
        px \in {150, 400}, k \in 1..MaxWallStep }

\* Boards of 4 m by 2.5 m and of 5 m by 2 m across the inner corner of a large
\* room: the only sizes at which a multi-line cut leaves a spare
LargeCorneredRoom ==
    << Pt(0, 0), Pt(Units(800), 0), Pt(Units(800), Units(400)), Pt(Units(400), Units(400)),
       Pt(Units(400), Units(800)), Pt(0, Units(800)) >>

LargeBoardInputs ==
    { [room |-> LargeCorneredRoom, plank |-> TestPlank(400, 400, 4000, 2500)],
      [room |-> LargeCorneredRoom, plank |-> TestPlank(400, 400, 5000, 2000)] }

CutInputs == ScenarioInputs \cup RefInputs \cup LInputs \cup SquareInputs \cup NearWallInputs

NotCutYet == [done |-> FALSE, method |-> "none", fitted |-> << >>, spare |-> << >>]

CutInit ==
    /\ pc = "cut"
    /\ \E input \in CutInputs : room = input.room /\ candidate = input.plank
    /\ cutResult = NotCutYet
    /\ now \in 0..MaxNow
    /\ rectA = << >> /\ rectB = << >> /\ rectShift = 0 /\ rectRes = NoRectRes
    /\ dims = << >> /\ seed = << >> /\ planks = << >> /\ spares = << >>
    /\ idCounter = 0 /\ row = 0 /\ rowSt = << >> /\ attempts = 0
    /\ callArgs = << >> /\ callResult = << >>

\* The chain applied to the candidate, when it ends with the given method
ChainGives(method) ==
    LET result == attemptCuttingStrategies(candidate, room, << >>, 0)
    IN /\ result.method = method
       /\ cutResult' = [done |-> TRUE, method |-> result.method,
                        fitted |-> result.fitted, spare |-> result.spare]

CutLinear ==
    /\ pc = "cut" /\ ~cutResult.done
    /\ ChainGives("linear")
    /\ UNCHANGED <<callVars, rectVars, tessVars, room, candidate, now, pc>>

CutMultiLine ==
    /\ pc = "cut" /\ ~cutResult.done
    /\ ChainGives("multi-line")
    /\ UNCHANGED <<callVars, rectVars, tessVars, room, candidate, now, pc>>

CutShape ==
    /\ pc = "cut" /\ ~cutResult.done
    /\ ChainGives("shape")
    /\ UNCHANGED <<callVars, rectVars, tessVars, room, candidate, now, pc>>

CutNone ==
    /\ pc = "cut" /\ ~cutResult.done
    /\ ChainGives("none")
    /\ UNCHANGED <<callVars, rectVars, tessVars, room, candidate, now, pc>>

CutNext == CutLinear \/ CutMultiLine \/ CutShape \/ CutNone

SpecCut == CutInit /\ [][CutNext]_vars

----------------------------------------------------------------------------
(* Properties of the strategy chain *)

\* plankShapeToWorldCoordinates at rotation 0
plankShapeToWorldCoordinates(plank) ==
    LET cos == CosOf(plank.rotation)
        sin == SinOf(plank.rotation)
    IN [i \in DOMAIN plank.shape |->
          Pt(plank.x + (plank.shape[i].x * cos - plank.shape[i].y * sin),
             plank.y + (plank.shape[i].x * sin + plank.shape[i].y * cos))]

\* Area of a piece in mm^2: of its shape if it has one, of its rectangle otherwise
AreaMm2(piece) ==
    IF piece.isArbitraryShape
    THEN calculatePolygonArea(piece.shape) * (PixelsPerMmDen * PixelsPerMmDen)
    ELSE piece.length * piece.width

AreaOfOption(pieces) == IF pieces = << >> THEN 0 ELSE AreaMm2(pieces[1])

\* The cells of the grid drawn through the corners of a rectilinear polygon and
\* of an axis-aligned rectangle; a cell is inside the polygon when its centre
\* is (tested on doubled coordinates)
Doubled(points) == [i \in DOMAIN points |-> Pt(2 * points[i].x, 2 * points[i].y)]

GridCells(corners, polygonPoints) ==
    LET xs == {c.x : c \in Range(corners) \cup Range(polygonPoints)}
        ys == {c.y : c \in Range(corners) \cup Range(polygonPoints)}
    IN { cell \in [xa : xs, xb : xs, ya : ys, yb : ys] :
           /\ cell.xa < cell.xb /\ ~\E m \in xs : cell.xa < m /\ m < cell.xb
           /\ cell.ya < cell.yb /\ ~\E m \in ys : cell.ya < m /\ m < cell.yb }

CellInPolygon(cell, polygonPoints) ==
    RayCastInside(Pt(cell.xa + cell.xb, cell.ya + cell.yb), Doubled(polygonPoints))

CellInRect(cell, corners) ==
    /\ MinX(corners) <= cell.xa /\ cell.xb <= MaxX(corners)
    /\ MinY(corners) <= cell.ya /\ cell.yb <= MaxY(corners)

\* The rectangle and the polygon have area in common
SharesArea(corners, polygonPoints) ==
    \E cell \in GridCells(corners, polygonPoints) :
        CellInRect(cell, corners) /\ CellInPolygon(cell, polygonPoints)

\* The rectangle has no area outside the polygon
RectWithinPolygon(corners, polygonPoints) ==
    \A cell \in GridCells(corners, polygonPoints) :
        CellInRect(cell, corners) => CellInPolygon(cell, polygonPoints)

\* Vertex i of the polygon is a reflex (inner) corner
IsReflexVertex(polygonPoints, i) ==
    LET n == Len(polygonPoints)
        a == polygonPoints[PrevIndex(i, n)]
        b == polygonPoints[i]
        c == polygonPoints[NextIndex(i, n)]
        turn == (b.x - a.x) * (c.y - b.y) - (b.y - a.y) * (c.x - b.x)
    IN Sgn(turn) = -Sgn(ShoelaceSum(polygonPoints, n))

\* The plank straddles reflex corner i: the corner is strictly inside its
\* rectangle, and its bounding box meets just the two edges at that corner, one
\* near-horizontal and one near-vertical
StraddlesCorner(plank, polygonPoints, i) ==
    LET n == Len(polygonPoints)
        b == BoundsOf(getPlankCorners(plank))
        v == polygonPoints[i]
        before == polygonPoints[PrevIndex(i, n)]
        after == polygonPoints[NextIndex(i, n)]
    IN /\ IsReflexVertex(polygonPoints, i)
       /\ b.minX < v.x /\ v.x < b.maxX /\ b.minY < v.y /\ v.y < b.maxY
       /\ EdgesAtBounds(b, polygonPoints, 0) = {PrevIndex(i, n), i}
       /\ \/ IsNearHorizontal(before, v) /\ IsNearVertical(v, after)
          \/ IsNearVertical(before, v) /\ IsNearHorizontal(v, after)

\* Both edges at the corner run for more than 5 px inside the bounding box of the plank
DeepStraddle(plank, polygonPoints, i) ==
    LET n == Len(polygonPoints)
        b == BoundsOf(getPlankCorners(plank))
    IN /\ CutLineLongEnough(CutLineOf(polygonPoints[PrevIndex(i, n)], polygonPoints[i], b))
       /\ CutLineLongEnough(CutLineOf(polygonPoints[i], polygonPoints[NextIndex(i, n)], b))

\* Sample points of the candidate's rectangle, SampleStepPx apart, one unit off
\* the lattice of the corners
SampleStepPx == 2

SamplePoints(plank) ==
    LET b == BoundsOf(getPlankCorners(plank))
        step == SampleStepPx * Scale
    IN { Pt(b.minX + 1 + i * step, b.minY + 1 + j * step) :
           i \in 0..((b.maxX - b.minX - 2) \div step), j \in 0..((b.maxY - b.minY - 2) \div step) }

\* C2: the shape of a multi-line cut or shape cut plank, in world coordinates,
\* covers no point outside the polygon.
C2_CutShapeWithinPolygon ==
    (cutResult.done /\ cutResult.method \in {"multi-line", "shape"}) =>
        \A q \in SamplePoints(candidate) :
            isPointInPolygon(q, plankShapeToWorldCoordinates(cutResult.fitted[1]))
                => isPointInPolygon(q, room)

\* C3: after every successful cut, the area of the fitted piece plus the area
\* of the spare (if any) is at most length x width of the uncut candidate.
C3_NoFabricatedArea ==
    (cutResult.done /\ cutResult.method # "none") =>
        AreaOfOption(cutResult.fitted) + AreaOfOption(cutResult.spare)
            <= candidate.length * candidate.width

\* C3 witness: a shape cut that leaves a spare
C3_Witness ==
    /\ cutResult.done /\ cutResult.method = "shape"
    /\ cutResult.spare # << >>
    /\ AreaOfOption(cutResult.fitted) > 0

\* C4: a linear cut gives a fitted piece and a spare whose lengths are positive
\* and add up to the length of the candidate; the spare is marked isSpare and
\* records the length before the cut as originalLength.
C4_LinearCutLengths ==
    (cutResult.done /\ cutResult.method = "linear") =>
        /\ cutResult.fitted[1].length + cutResult.spare[1].length = candidate.length
        /\ cutResult.spare[1].isSpare
        /\ cutResult.spare[1].originalLength = candidate.length
        /\ cutResult.fitted[1].length > 0
        /\ cutResult.spare[1].length > 0

\* C4 witness: a linear cut by the trim-from-near-end branch (the fitted piece
\* is the far part of the candidate)
C4_Witness ==
    /\ cutResult.done /\ cutResult.method = "linear"
    /\ cutResult.fitted[1].x > candidate.x
    /\ cutResult.spare[1].x < candidate.x

\* C5: in the reference room, the 1200 x 240 candidate centred at (300, 150)
\* (past the right edge) and the one centred at (150, 150) (past the left edge)
\* get a linear cut: fitted length 1095, a spare, and the fitted piece inside
\* the room.
C5_ReferenceLinearCut ==
    (/\ cutResult.done /\ room = ReferenceRoom
     /\ candidate \in {LinearRightCandidate, LinearLeftCandidate}) =>
        /\ cutResult.method = "linear"
        /\ cutResult.fitted[1].length = Units(1095)
        /\ cutResult.spare # << >>
        /\ RectWithinPolygon(getPlankCorners(cutResult.fitted[1]), room)

\* C5 witness: the mirrored reference case, cut
C5_Witness ==
    /\ cutResult.done /\ room = ReferenceRoom /\ candidate = LinearLeftCandidate
    /\ cutResult.method = "linear"

\* C6: a candidate whose rectangle has no area in common with the polygon gets
\* method "none", no fitted piece and no spare.
C6_OutsideGivesNone ==
    (cutResult.done /\ ~SharesArea(getPlankCorners(candidate), room)) =>
        /\ cutResult.method = "none"
        /\ cutResult.fitted = << >>
        /\ cutResult.spare = << >>

\* C6 witness: a candidate lying against the left wall from outside, refused
C6_Witness ==
    /\ cutResult.done /\ cutResult.method = "none"
    /\ ~SharesArea(getPlankCorners(candidate), room)
    /\ MaxX(getPlankCorners(candidate)) = MinX(room)
    /\ YOverlap(getPlankCorners(candidate), room)

----------------------------------------------------------------------------
(* The row scheduler: tessellation.ts *)

\* const maxAttempts = 20
MaxAttempts == 20
\* Math.ceil(polygonHeight / widthPx) + 2
RowBuffer == 2

calculateBoundingBox(polygonPoints) == BoundsOf(polygonPoints)

calculateSpacing(lengthPx, widthPx, gapPx, rotation) ==
    [plankSpacingX |-> (lengthPx + gapPx) * CosOf(rotation),
     plankSpacingY |-> (lengthPx + gapPx) * SinOf(rotation),
     rowSpacingX   |-> -(widthPx + gapPx) * SinOf(rotation),
     rowSpacingY   |-> (widthPx + gapPx) * CosOf(rotation)]

isOutsideBounds(plankX, plankY, minX, maxX, minY, maxY, lengthPx, widthPx) ==
    \/ plankX < minX - lengthPx
    \/ plankX > maxX + lengthPx
    \/ plankY < minY - widthPx
    \/ plankY > maxY + widthPx

createTestPlank(plankId, plankX, plankY, rotation, dimensions, rowIndex, plankInRow) ==
    NewPlank(PlankIdOf(<< rowIndex, plankInRow, plankId >>), plankX, plankY, rotation,
             dimensions.length, dimensions.width)

calculateRowStart(startX, startY, rowIndex, rowSpacingX, rowSpacingY, offsetForThisRow, rotation) ==
    [rowStartX |-> startX + rowIndex * rowSpacingX + offsetForThisRow * CosOf(rotation),
     rowStartY |-> startY + rowIndex * rowSpacingY + offsetForThisRow * SinOf(rotation)]

advanceRowPosition(rowState, advanceDistance, rotation) ==
    [rowState EXCEPT !.nextX = @ + advanceDistance * CosOf(rotation),
                     !.nextY = @ + advanceDistance * SinOf(rotation)]

RemoveAt(s, i) == SubSeq(s, 1, i - 1) \o SubSeq(s, i + 1, Len(s))

\* What a placement attempt leaves: whether a plank was placed, by which
\* method, and the accepted planks and the ledger after it
Placement(method, planksAfter, sparesAfter) ==
    [placed |-> method # "none", method |-> method, planks |-> planksAfter, spares |-> sparesAfter]

applySparePiece(testPlank, suitableSpare, planksBefore, sparesBefore) ==
    IF \E i \in DOMAIN sparesBefore : sparesBefore[i] = suitableSpare
    THEN LET spareIndex == SetMin({i \in DOMAIN sparesBefore : sparesBefore[i] = suitableSpare})
             sparePlank == [suitableSpare EXCEPT !.x = testPlank.x, !.y = testPlank.y,
                                                 !.rotation = testPlank.rotation]
         IN Placement("spare", Append(planksBefore, sparePlank), RemoveAt(sparesBefore, spareIndex))
    ELSE Placement("none", planksBefore, sparesBefore)

\* Mutant: the spare of a cut is not entered in the ledger
PlacementByCuttingSpareDropped(testPlank, polygonPoints, planksBefore, sparesBefore, gapPx) ==
    Only({ IF cut.method = "none" THEN Placement("none", planksBefore, sparesBefore)
           ELSE Placement(cut.method, planksBefore \o cut.fitted, sparesBefore) :
             cut \in { attemptCuttingStrategies(testPlank, polygonPoints, planksBefore, gapPx) } })

\* attemptCuttingStrategies as the scheduler uses it: the fitted piece and the
\* spare of the first strategy that succeeds are appended
PlacementByCutting(testPlank, polygonPoints, planksBefore, sparesBefore, gapPx) ==
    Only({ IF cut.method = "none" THEN Placement("none", planksBefore, sparesBefore)
           ELSE Placement(cut.method, planksBefore \o cut.fitted, sparesBefore \o cut.spare) :
             cut \in { attemptCuttingStrategies(testPlank, polygonPoints, planksBefore, gapPx) } })

\* A spare from the ledger first, then the full plank, then the cutting strategies
attemptPlankPlacement(testPlank, polygonPoints, planksBefore, sparesBefore, gapPx) ==
    LET suitableSpare == findSuitableSpare(testPlank, polygonPoints, sparesBefore)
    IN IF suitableSpare # << >>
       THEN applySparePiece(testPlank, suitableSpare[1], planksBefore, sparesBefore)
       ELSE IF isPlankInPolygon(testPlank, polygonPoints)
       THEN Placement("full", Append(planksBefore, testPlank), sparesBefore)
       ELSE PlacementByCutting(testPlank, polygonPoints, planksBefore, sparesBefore, gapPx)

\* The conversions at the head of generateTessellation
LengthPx == mmToPixels(dims.length)
WidthPx == mmToPixels(dims.width)
GapPx == mmToPixels(dims.gap)
MinRowOffsetPx == mmToPixels(dims.minRowOffset)

MaxRowsNeeded ==
    LET b == calculateBoundingBox(room)
    IN CeilDiv(b.maxY - b.minY, WidthPx) + RowBuffer

\* Bounds of the layout runs
MaxRoomStep == 1
MaxSeedStep == 1

Dimensions(lengthMm, widthMm, gapMm, minRowOffsetMm) ==
    [length |-> Units(lengthMm), width |-> Units(widthMm),
     gap |-> Units(gapMm), minRowOffset |-> Units(minRowOffsetMm)]

SeedPlank(px2, py2, dimensions) ==
    NewPlank(PlankIdOf(<< 0, 0, 0 >>), (px2 * Scale) \div 2, (py2 * Scale) \div 2, 0,
             dimensions.length, dimensions.width)

Layout(polygonPoints, dimensions, firstPlank) ==
    [room |-> polygonPoints, dims |-> dimensions, seed |-> firstPlank]

\* Rectangular rooms that whole planks of 20 px x 10 px tile exactly, gap 0,
\* the first plank on the grid of the room
DivisibleLayouts ==
    { Layout(AxisRect(0, 0, Units(40 + 20 * i), Units(20 + 10 * j)),
             Dimensions(200, 100, 0, minRowOffsetMm),
             SeedPlank(20 + 40 * k, 10 + 20 * l, Dimensions(200, 100, 0, minRowOffsetMm))) :
        i \in 0..MaxRoomStep, j \in 0..MaxRoomStep, k \in 0..MaxSeedStep, l \in 0..MaxSeedStep,
        minRowOffsetMm \in {0, 200} }

\* Rooms laid with a gap between the planks
GappedLayouts ==
    { Layout(AxisRect(0, 0, Units(60), Units(40)),
             Dimensions(190, 100, 3, minRowOffsetMm),
             SeedPlank(21 + 2 * k, 50, Dimensions(190, 100, 3, minRowOffsetMm))) :
        k \in 0..MaxSeedStep, minRowOffsetMm \in {95, 190} }

\* The L-shaped room of the cutting scenarios
LShapedLayouts ==
    { Layout(LShapedRoom, Dimensions(800, 200, 0, 400),
             SeedPlank(280 + 40 * k, 250, Dimensions(800, 200, 0, 400))) : k \in 0..MaxSeedStep }

\* Fewer than three polygon points
DegenerateLayouts ==
    { Layout(<< Pt(0, 0), Pt(Units(40), 0) >>, Dimensions(200, 100, 0, 0),
             SeedPlank(20, 10, Dimensions(200, 100, 0, 0))) }

\* Planks of length zero
ZeroLengthLayouts ==
    { Layout(AxisRect(0, 0, Units(60), Units(40)), Dimensions(0, 100, 20, 0),
             SeedPlank(20, 10, Dimensions(0, 100, 20, 0))) }

\* A room whose rows leave two cut-offs of the same length in the ledger
EqualSpareLayouts ==
    { Layout(AxisRect(0, 0, Units(40), Units(60)), Dimensions(200, 100, 0, 50),
             SeedPlank(20, 50, Dimensions(200, 100, 0, 50))) }

TessInputs ==
    DivisibleLayouts \cup GappedLayouts \cup LShapedLayouts \cup DegenerateLayouts
        \cup ZeroLengthLayouts \cup EqualSpareLayouts

\* A RowState; startX and startY keep the rowStartX and rowStartY the row was
\* initialised with
NoRow ==
    [rowIndex |-> 0, nextX |-> 0, nextY |-> 0, placedPlanks |-> << >>, completed |-> TRUE,
     startX |-> 0, startY |-> 0]

TessInit ==
    /\ pc = "start"
    /\ \E input \in TessInputs : room = input.room /\ dims = input.dims /\ seed = input.seed
    /\ planks = << >> /\ spares = << >>
    /\ idCounter = 0 /\ row = 0 /\ rowSt = NoRow /\ attempts = 0
    /\ now = 0
    /\ candidate = << >> /\ cutResult = NotCutYet
    /\ rectA = << >> /\ rectB = << >> /\ rectShift = 0 /\ rectRes = NoRectRes
    /\ callArgs = << >> /\ callResult = << >>

\* generateTessellation with fewer than three polygon points
Degenerate ==
    /\ pc = "start"
    /\ Len(room) < 3
    /\ planks' = << seed >>
    /\ spares' = << >>
    /\ pc' = "done"
    /\ UNCHANGED << callVars, rectVars, cutVars, room, dims, seed, idCounter, row, rowSt, attempts, now >>

\* generateTessellation up to the loop over the rows
Start ==
    /\ pc = "start"
    /\ Len(room) >= 3
    /\ planks' = << seed >>
    /\ spares' = << >>
    /\ idCounter' = 1
    /\ row' = -MaxRowsNeeded
    /\ pc' = "rows"
    /\ UNCHANGED << callVars, rectVars, cutVars, room, dims, seed, rowSt, attempts, now >>

\* processRowsWithAwarePlacement: the head of one iteration
StartRow ==
    /\ pc = "rows"
    /\ row <= MaxRowsNeeded
    /\ LET spacing == calculateSpacing(LengthPx, WidthPx, GapPx, seed.rotation)
           offsetForThisRow ==
               calculateOptimalRowOffset(row, MinRowOffsetPx, LengthPx + GapPx, spares)
           start == calculateRowStart(seed.x, seed.y, row, spacing.rowSpacingX,
                                      spacing.rowSpacingY, offsetForThisRow, seed.rotation)
       IN rowSt' = [rowIndex |-> row, nextX |-> start.rowStartX, nextY |-> start.rowStartY,
                    placedPlanks |-> << >>, completed |-> FALSE,
                    startX |-> start.rowStartX, startY |-> start.rowStartY]
    /\ attempts' = 0
    /\ pc' = "row"
    /\ UNCHANGED << callVars, rectVars, cutVars, room, dims, seed, planks, spares, idCounter, row, now >>

\* processRowWithContinuousPlacement: the conditions of one loop iteration
InLoop == pc = "row" /\ ~rowSt.completed /\ attempts < MaxAttempts

AtSeedPosition == rowSt.rowIndex = 0 /\ Len(rowSt.placedPlanks) = 0

NextIsOutsideBounds ==
    LET b == calculateBoundingBox(room)
    IN isOutsideBounds(rowSt.nextX, rowSt.nextY, b.minX, b.maxX, b.minY, b.maxY,
                       LengthPx, WidthPx)

NextTestPlank ==
    createTestPlank(idCounter, rowSt.nextX, rowSt.nextY, seed.rotation, dims,
                    rowSt.rowIndex, Len(rowSt.placedPlanks))

\* The iteration got as far as creating the test plank
Testing == InLoop /\ ~AtSeedPosition /\ ~NextIsOutsideBounds

\* The iteration got as far as attemptPlankPlacement
Attempting(testPlank) ==
    /\ Testing
    /\ plankOverlapsPolygon(testPlank, room)
    /\ ~plankCollidesWithExisting(testPlank, planks, GapPx)

\* The iteration leaves the test plank unplaced and steps by a nominal plank
AdvanceNominal ==
    /\ rowSt' = advanceRowPosition(rowSt, LengthPx + GapPx, seed.rotation)
    /\ attempts' = attempts + 1

\* The iteration ends with a plank placed by the given methods
PlacedBy(methods) ==
    \E testPlank \in { NextTestPlank } :
      /\ Attempting(testPlank)
      /\ \E result \in { attemptPlankPlacement(testPlank, room, planks, spares, GapPx) } :
           /\ result.method \in methods
           /\ planks' = result.planks
           /\ spares' = result.spares
           /\ LET actualPlank == result.planks[Len(result.planks)]
                  actualLengthPx == mmToPixels(actualPlank.length)
              IN rowSt' = advanceRowPosition(
                              [rowSt EXCEPT !.placedPlanks = Append(@, actualPlank)],
                              actualLengthPx + GapPx, seed.rotation)
      /\ idCounter' = idCounter + 1
      /\ attempts' = attempts + 1

SkipSeedPosition ==
    /\ InLoop
    /\ AtSeedPosition
    /\ AdvanceNominal
    /\ UNCHANGED << callVars, rectVars, cutVars, room, dims, seed, planks, spares, idCounter, row, now, pc >>

RowOutOfBounds ==
    /\ InLoop
    /\ ~AtSeedPosition
    /\ NextIsOutsideBounds
    /\ rowSt' = [rowSt EXCEPT !.completed = TRUE]
    /\ attempts' = attempts + 1
    /\ UNCHANGED << callVars, rectVars, cutVars, room, dims, seed, planks, spares, idCounter, row, now, pc >>

SkipNoOverlap ==
    /\ Testing
    /\ ~plankOverlapsPolygon(NextTestPlank, room)
    /\ AdvanceNominal
    /\ idCounter' = idCounter + 1
    /\ UNCHANGED << callVars, rectVars, cutVars, room, dims, seed, planks, spares, row, now, pc >>

SkipCollision ==
    /\ Testing
    /\ plankOverlapsPolygon(NextTestPlank, room)
    /\ plankCollidesWithExisting(NextTestPlank, planks, GapPx)
    /\ AdvanceNominal
    /\ idCounter' = idCounter + 1
    /\ UNCHANGED << callVars, rectVars, cutVars, room, dims, seed, planks, spares, row, now, pc >>

PlaceFull ==
    /\ PlacedBy({"spare", "full"})
    /\ UNCHANGED << callVars, rectVars, cutVars, room, dims, seed, row, now, pc >>

PlaceLinearCut ==
    /\ PlacedBy({"linear"})
    /\ UNCHANGED << callVars, rectVars, cutVars, room, dims, seed, row, now, pc >>

PlaceMultiLineCut ==
    /\ PlacedBy({"multi-line"})
    /\ UNCHANGED << callVars, rectVars, cutVars, room, dims, seed, row, now, pc >>

PlaceShapeCut ==
    /\ PlacedBy({"shape"})
    /\ UNCHANGED << callVars, rectVars, cutVars, room, dims, seed, row, now, pc >>

FailPlacement ==
    /\ \E testPlank \in { NextTestPlank } :
         /\ Attempting(testPlank)
         /\ attemptPlankPlacement(testPlank, room, planks, spares, GapPx).method = "none"
    /\ AdvanceNominal
    /\ idCounter' = idCounter + 1
    /\ UNCHANGED << callVars, rectVars, cutVars, room, dims, seed, planks, spares, row, now, pc >>

\* The loop left with the attempts used up
RowBudgetExhausted ==
    /\ pc = "row"
    /\ ~rowSt.completed
    /\ attempts >= MaxAttempts
    /\ rowSt' = [rowSt EXCEPT !.completed = TRUE]
    /\ UNCHANGED << callVars, rectVars, cutVars, room, dims, seed, planks, spares, idCounter, row,
                    attempts, now, pc >>

\* Mutant: the loop over the rows does not advance the row index
NextRowSameIndex ==
    /\ pc = "row"
    /\ rowSt.completed
    /\ pc' = "rows"
    /\ UNCHANGED << callVars, rectVars, cutVars, room, dims, seed, planks, spares, idCounter, row,
                    rowSt, attempts, now >>

NextRow ==
    /\ pc = "row"
    /\ rowSt.completed
    /\ row' = row + 1
    /\ pc' = "rows"
    /\ UNCHANGED << callVars, rectVars, cutVars, room, dims, seed, planks, spares, idCounter, rowSt,
                    attempts, now >>

\* generateTessellation returns { planks, spares }
Finish ==
    /\ pc = "rows"
    /\ row > MaxRowsNeeded
    /\ pc' = "done"
    /\ UNCHANGED << callVars, rectVars, cutVars, room, dims, seed, planks, spares, idCounter, row,
                    rowSt, attempts, now >>

\* Date.now() moves on between two cuts
Tick ==
    /\ pc \in {"rows", "row"}
    /\ now < MaxNow
    /\ now' = now + 1
    /\ UNCHANGED << callVars, rectVars, cutVars, room, dims, seed, planks, spares, idCounter, row,
                    rowSt, attempts, pc >>

TessNext ==
    \/ Degenerate \/ Start \/ StartRow
    \/ SkipSeedPosition \/ RowOutOfBounds \/ SkipNoOverlap \/ SkipCollision
    \/ PlaceFull \/ PlaceLinearCut \/ PlaceMultiLineCut \/ PlaceShapeCut \/ FailPlacement
    \/ RowBudgetExhausted \/ NextRow \/ Finish \/ Tick

SpecTess == TessInit /\ [][TessNext]_vars

\* The control flow of the call, as steps of the program counter, the attempt
\* counter and the completed flag: entering, the head of the loop over the
\* rows, one iteration of the loop of a row, leaving that loop with the
\* attempts used up, and the return to the loop over the rows
EnterCall == pc = "start" /\ pc' \in {"rows", "done"}

RowsLoopHead == pc = "rows" /\ pc' \in {"row", "done"}

RowIteration ==
    /\ pc = "row" /\ ~rowSt.completed /\ attempts < MaxAttempts
    /\ attempts' = attempts + 1

RowAttemptsUsedUp ==
    /\ pc = "row" /\ ~rowSt.completed /\ attempts >= MaxAttempts
    /\ rowSt' = [rowSt EXCEPT !.completed = TRUE]

RowReturn == pc = "row" /\ rowSt.completed /\ pc' = "rows"

\* generateTessellation is one synchronous call on one thread: once entered,
\* the statement it stands at is executed
FairSpecTess ==
    /\ SpecTess
    /\ WF_pc(EnterCall) /\ WF_pc(RowsLoopHead) /\ WF_pc(RowReturn)
    /\ WF_attempts(RowIteration) /\ WF_rowSt(RowAttemptsUsedUp)

----------------------------------------------------------------------------
(* Rendering: plankRendering.ts *)

PLANK_FILL_RGB_SPARE == "rgba(34, 197, 94, 0.7)"
PLANK_FILL_RGB_MULTILINE_CUT == "rgba(236, 72, 153, 0.7)"
PLANK_FILL_RGB_REGULAR_CUT == "rgba(147, 51, 234, 0.7)"
PLANK_FILL_RGB_LINEAR_CUT == "rgba(251, 146, 60, 0.7)"
PLANK_FILL_RGB_FULL == "rgba(139, 69, 19, 0.7)"

\* originalLength undefined is 0, shape undefined is << >>
analyzePlankForRendering(plank) ==
    LET isSpare == plank.isSpare
        isCut == IF plank.originalLength # 0 THEN plank.length < plank.originalLength
                 ELSE FALSE
        isArbitraryShape == plank.isArbitraryShape /\ plank.shape # << >>
        isMultiLineCut == plank.isMultiLineCut
    IN [isSpare |-> isSpare, isCut |-> isCut,
        isArbitraryShape |-> isArbitraryShape, isMultiLineCut |-> isMultiLineCut,
        fillColor |-> IF isSpare THEN PLANK_FILL_RGB_SPARE
                      ELSE IF isArbitraryShape
                           THEN IF isMultiLineCut THEN PLANK_FILL_RGB_MULTILINE_CUT
                                ELSE PLANK_FILL_RGB_REGULAR_CUT
                      ELSE IF isCut THEN PLANK_FILL_RGB_LINEAR_CUT
                      ELSE PLANK_FILL_RGB_FULL]

----------------------------------------------------------------------------
(* Properties of the layout *)

\* The distance between the rectangles of two planks along each axis (0 when
\* their projections meet), and whether the rectangles have area in common
AxisGapX(a, b) ==
    LET ca == getPlankCorners(a)
        cb == getPlankCorners(b)
    IN Max2(0, Max2(MinX(ca) - MaxX(cb), MinX(cb) - MaxX(ca)))

AxisGapY(a, b) ==
    LET ca == getPlankCorners(a)
        cb == getPlankCorners(b)
    IN Max2(0, Max2(MinY(ca) - MaxY(cb), MinY(cb) - MaxY(ca)))

RectanglesOverlap(a, b) ==
    LET ca == getPlankCorners(a)
        cb == getPlankCorners(b)
    IN /\ MinX(ca) < MaxX(cb) /\ MinX(cb) < MaxX(ca)
       /\ MinY(ca) < MaxY(cb) /\ MinY(cb) < MaxY(ca)

SeparatedByGap(a, b) ==
    /\ ~RectanglesOverlap(a, b)
    /\ AxisGapX(a, b) * AxisGapX(a, b) + AxisGapY(a, b) * AxisGapY(a, b) >= GapPx * GapPx

\* C1: at every step of generateTessellation on a polygon of three or more
\* points, no two accepted planks have overlapping rectangles and any two of
\* them are at least the configured gap apart
C1_AcceptedPlanksKeepGap ==
    (pc \in {"rows", "row", "done"} /\ Len(room) >= 3) =>
        \A i, j \in DOMAIN planks : i < j => SeparatedByGap(planks[i], planks[j])

\* The room is an axis-aligned rectangle whose sides are whole multiples of the
\* plank, the gap is 0 and the first plank lies in the room on the grid of the planks
DivisibleAligned ==
    /\ Len(room) = 4
    /\ LET b == calculateBoundingBox(room)
           c == getPlankCorners(seed)
       IN /\ Range(room) = Range(AxisRect(b.minX, b.minY, b.maxX, b.maxY))
          /\ (b.maxX - b.minX) % LengthPx = 0
          /\ (b.maxY - b.minY) % WidthPx = 0
          /\ (MinX(c) - b.minX) % LengthPx = 0
          /\ (MinY(c) - b.minY) % WidthPx = 0
          /\ b.minX <= MinX(c) /\ MaxX(c) <= b.maxX
          /\ b.minY <= MinY(c) /\ MaxY(c) <= b.maxY
    /\ dims.gap = 0
    /\ seed.rotation = 0

IsCutPlank(plank) == plank.id.suffix # "" \/ plank.isArbitraryShape \/ plank.length # dims.length

\* The outline of an accepted plank in the room
OutlineOf(plank) ==
    IF plank.isArbitraryShape THEN plankShapeToWorldCoordinates(plank) ELSE getPlankCorners(plank)

RECURSIVE AllOutlinePoints(_)
AllOutlinePoints(pieces) ==
    IF pieces = << >> THEN << >>
    ELSE OutlineOf(Head(pieces)) \o AllOutlinePoints(Tail(pieces))

\* Every part of the room lies under an accepted plank
RoomCovered ==
    \A cell \in GridCells(AllOutlinePoints(planks), room) :
        CellInPolygon(cell, room) =>
            \E i \in DOMAIN planks : CellInPolygon(cell, OutlineOf(planks[i]))

\* C8: the layout of a divisible rectangular room with gap 0 and an aligned
\* first plank covers the whole room and holds full planks only
C8_DivisibleRoomCoveredByFullPlanks ==
    (pc = "done" /\ DivisibleAligned) =>
        /\ \A i \in DOMAIN planks : ~IsCutPlank(planks[i])
        /\ RoomCovered

----------------------------------------------------------------------------
(* Single calls of the library functions *)

\* Bounds of the calls
MaxClearance == 16
MaxOverlapDepth == 8

NotCalled == [done |-> FALSE]
Returned(value) == [done |-> TRUE, value |-> value]

\* The placed plank of plank.spec.ts and a candidate of the same size beside
\* it, on one of its four sides, at the given clearance (negative: overlapping)
PlacedPlank == NewPlank(PlankIdOf(<< >>), Units(50), Units(50), 0, Units(1000), Units(200))

CandidateBeside(side, clearance) ==
    LET lengthPx == mmToPixels(PlacedPlank.length)
        widthPx == mmToPixels(PlacedPlank.width)
        cx == CASE side = "right" -> PlacedPlank.x + lengthPx + clearance
                [] side = "left"  -> PlacedPlank.x - lengthPx - clearance
                [] OTHER          -> PlacedPlank.x
        cy == CASE side = "bottom" -> PlacedPlank.y + widthPx + clearance
                [] side = "top"    -> PlacedPlank.y - widthPx - clearance
                [] OTHER           -> PlacedPlank.y
    IN NewPlank(PlankIdOf(<< >>), cx, cy, 0, PlacedPlank.length, PlacedPlank.width)

\* gapPx: 0, 0.1 px (1 mm), 0.3 px (3 mm) and 5 px
GapChoices == {0, Scale \div 10, (3 * Scale) \div 10, 5 * Scale}

CollisionCalls ==
    { [fn |-> "plankCollidesWithExisting", side |-> side, clearance |-> clearance,
       plank |-> CandidateBeside(side, clearance), existingPlanks |-> << PlacedPlank >>,
       gapPx |-> gapPx] :
        side \in {"left", "right", "top", "bottom"},
        clearance \in (-MaxOverlapDepth)..MaxClearance,
        gapPx \in GapChoices }

\* The vertex list of a polygon started at vertex k + 1, and walked backwards
Rotated(points, k) == [i \in 1..Len(points) |-> points[((i - 1 + k) % Len(points)) + 1]]
Reversed(points) == [i \in 1..Len(points) |-> points[Len(points) + 1 - i]]

VertexOrders(points) ==
    { Rotated(points, k) : k \in 0..(Len(points) - 1) }
        \cup { Rotated(Reversed(points), k) : k \in 0..(Len(points) - 1) }

\* Convex clip polygons: a rectangular room and a triangular one
ConvexRoom == AxisRect(0, 0, Units(60), Units(40))
TriangleRoom == << Pt(0, 0), Pt(Units(80), 0), Pt(0, Units(80)) >>

MaxClipColumn == 5
MaxClipRow == 3

\* Subject rectangles of 20 x 10 on a 10 px grid
ClipSubjects ==
    { AxisRect(Units(10 * i), Units(10 * j), Units(10 * i + 20), Units(10 * j + 10)) :
        i \in 0..MaxClipColumn, j \in 0..MaxClipRow }

ClipCalls ==
    { [fn |-> "clipPolygonByPolygon", subjectPolygon |-> subject, clipPolygon |-> clip] :
        subject \in ClipSubjects,
        clip \in VertexOrders(ConvexRoom) \cup VertexOrders(TriangleRoom) }

MaxPointStep == 8

\* Points on a 25 px grid from one step before the bounding box of the polygon
\* (the grid passes through the vertices) and 5 px beside each of them
GridPointsAround(polygonPoints) ==
    LET b == BoundsOf(polygonPoints)
    IN { Pt(b.minX + Units(25 * (i - 1) + dx), b.minY + Units(25 * (j - 1) + dy)) :
           i \in 0..MaxPointStep, j \in 0..MaxPointStep, dx \in {0, 5}, dy \in {0, 5} }

PointInPolygonCallsOn(polygonPoints) ==
    { [fn |-> "isPointInPolygon", point |-> q, polygonPoints |-> polygonPoints] :
        q \in GridPointsAround(polygonPoints) }

PointInPolygonCalls ==
    UNION { PointInPolygonCallsOn(shape) : shape \in {LShapedRoom, ReferenceRoom, TriangleRoom} }

\* Calls of attemptCuttingStrategies: the candidates of the cutting scenarios
\* and candidates across the left wall of the square room, with nothing laid
\* yet, with a plank laid flush against the long side of the candidate, or
\* with one laid over half of its width
ChainCandidates ==
    ScenarioInputs \cup { c \in SquareInputs : c.plank.x = Units(100) }

LaidBeside(testPlank, dy) ==
    [testPlank EXCEPT !.id = PlankIdOf(<< 0, 0, 0 >>), !.y = @ + dy]

ChainCallsOn(c) ==
    { [fn |-> "attemptCuttingStrategies", testPlank |-> c.plank, polygonPoints |-> c.room,
       newPlanks |-> existing, newSpares |-> << >>, gapPx |-> gapPx] :
        existing \in { << >>,
                       << LaidBeside(c.plank, mmToPixels(c.plank.width)) >>,
                       << LaidBeside(c.plank, mmToPixels(c.plank.width) \div 2) >> },
        gapPx \in {0, 5 * Scale} }

\* The large boards, with nothing laid yet
LargeBoardCalls ==
    { [fn |-> "attemptCuttingStrategies", testPlank |-> c.plank, polygonPoints |-> c.room,
       newPlanks |-> << >>, newSpares |-> << >>, gapPx |-> 0] : c \in LargeBoardInputs }

ChainCalls == UNION { ChainCallsOn(c) : c \in ChainCandidates } \cup LargeBoardCalls

\* Calls of the tests of a plank against a polygon and of attemptPlankPlacement:
\* a plank of 200 mm by 100 mm on a lattice of 5 px over a rectangular room, a
\* room with an inner corner and a room narrower than the plank
MaxPlankColumn == 10
MaxPlankRow == 8

CorneredRoom ==
    << Pt(0, 0), Pt(Units(40), 0), Pt(Units(40), Units(20)), Pt(Units(20), Units(20)),
       Pt(Units(20), Units(40)), Pt(0, Units(40)) >>

NarrowRoom == AxisRect(Units(2), 0, Units(6), Units(40))

LatticePlanks ==
    { NewPlank(PlankIdOf(<< 1, 0, 1 >>), Units(5 * i - 15), Units(5 * j - 10), 0,
               Units(200), Units(100)) :
        i \in 0..MaxPlankColumn, j \in 0..MaxPlankRow }

PlankCalls ==
    { [fn |-> fn, plank |-> plank, polygonPoints |-> polygonPoints] :
        fn \in {"isPlankInPolygon", "plankOverlapsPolygon"},
        plank \in LatticePlanks,
        polygonPoints \in {ConvexRoom, CorneredRoom, NarrowRoom} }

\* Calls of fitPlankByShapeCutting on a polygon as listed and with its vertices
\* listed in the opposite direction
ShapeCutCalls ==
    { [fn |-> "fitPlankByShapeCutting", plank |-> plank, polygonPoints |-> polygonPoints] :
        plank \in LatticePlanks,
        polygonPoints \in {ConvexRoom, Reversed(ConvexRoom), CorneredRoom, Reversed(CorneredRoom)} }

PlacementCalls ==
    { [fn |-> "attemptPlankPlacement", testPlank |-> plank, polygonPoints |-> polygonPoints,
       newPlanks |-> << >>, newSpares |-> << >>, gapPx |-> 0] :
        plank \in LatticePlanks, polygonPoints \in {ConvexRoom, CorneredRoom} }

CallInputs ==
    CollisionCalls \cup ClipCalls \cup PointInPolygonCalls \cup ChainCalls
      \cup PlankCalls \cup ShapeCutCalls \cup PlacementCalls

CallInit ==
    /\ pc = "call"
    /\ callArgs \in CallInputs
    /\ callResult = NotCalled
    /\ rectA = << >> /\ rectB = << >> /\ rectShift = 0 /\ rectRes = NoRectRes
    /\ room = << >> /\ candidate = << >> /\ cutResult = NotCutYet
    /\ dims = << >> /\ seed = << >> /\ planks = << >> /\ spares = << >>
    /\ idCounter = 0 /\ row = 0 /\ rowSt = NoRow /\ attempts = 0
    /\ now = 0

Calling(fn) == pc = "call" /\ ~callResult.done /\ callArgs.fn = fn

CallCollides ==
    /\ Calling("plankCollidesWithExisting")
    /\ callResult' = Returned(plankCollidesWithExisting(callArgs.plank, callArgs.existingPlanks,
                                                        callArgs.gapPx))
    /\ UNCHANGED << rectVars, cutVars, tessVars, room, now, callArgs, pc >>

CallClip ==
    /\ Calling("clipPolygonByPolygon")
    /\ callResult' = Returned(clipPolygonByPolygon(callArgs.subjectPolygon, callArgs.clipPolygon))
    /\ UNCHANGED << rectVars, cutVars, tessVars, room, now, callArgs, pc >>

CallPointInPolygon ==
    /\ Calling("isPointInPolygon")
    /\ callResult' = Returned(isPointInPolygon(callArgs.point, callArgs.polygonPoints))
    /\ UNCHANGED << rectVars, cutVars, tessVars, room, now, callArgs, pc >>

\* attemptCuttingStrategies returns whether it placed a plank; newPlanks and
\* newSpares are the caller's lists after the call
CallCuttingStrategies ==
    /\ Calling("attemptCuttingStrategies")
    /\ \E result \in { PlacementByCutting(callArgs.testPlank, callArgs.polygonPoints,
                                            callArgs.newPlanks, callArgs.newSpares,
                                            callArgs.gapPx) } :
         callResult' = Returned([placed |-> result.placed, newPlanks |-> result.planks,
                                 newSpares |-> result.spares])
    /\ UNCHANGED << rectVars, cutVars, tessVars, room, now, callArgs, pc >>

CallPlankInPolygon ==
    /\ Calling("isPlankInPolygon")
    /\ callResult' = Returned(isPlankInPolygon(callArgs.plank, callArgs.polygonPoints))
    /\ UNCHANGED << rectVars, cutVars, tessVars, room, now, callArgs, pc >>

CallPlankOverlaps ==
    /\ Calling("plankOverlapsPolygon")
    /\ callResult' = Returned(plankOverlapsPolygon(callArgs.plank, callArgs.polygonPoints))
    /\ UNCHANGED << rectVars, cutVars, tessVars, room, now, callArgs, pc >>

\* attemptPlankPlacement returns whether it placed a plank; newPlanks and
\* newSpares are the caller's lists after the call
CallPlankPlacement ==
    /\ Calling("attemptPlankPlacement")
    /\ \E result \in { attemptPlankPlacement(callArgs.testPlank, callArgs.polygonPoints,
                                               callArgs.newPlanks, callArgs.newSpares,
                                               callArgs.gapPx) } :
         callResult' = Returned([placed |-> result.placed, newPlanks |-> result.planks,
                                 newSpares |-> result.spares])
    /\ UNCHANGED << rectVars, cutVars, tessVars, room, now, callArgs, pc >>

\* fitPlankByShapeCutting returns the shaped plank or null (<< >>)
CallShapeCut ==
    /\ Calling("fitPlankByShapeCutting")
    /\ callResult' = Returned(fitPlankByShapeCutting(callArgs.plank, callArgs.polygonPoints))
    /\ UNCHANGED << rectVars, cutVars, tessVars, room, now, callArgs, pc >>

CallNext ==
    \/ CallCollides \/ CallClip \/ CallPointInPolygon \/ CallCuttingStrategies
    \/ CallPlankInPolygon \/ CallPlankOverlaps \/ CallPlankPlacement \/ CallShapeCut

SpecCall == CallInit /\ [][CallNext]_vars

Called(fn) == pc = "call" /\ callResult.done /\ callArgs.fn = fn

\* C11: with gap 0 a candidate touching the placed plank does not collide and
\* one overlapping it does; with a gap > 0 a candidate closer to the placed
\* plank than the gap (touching included) collides
C11_CollisionEnforcesGap ==
    Called("plankCollidesWithExisting") =>
        /\ (callArgs.gapPx = 0 /\ callArgs.clearance = 0) => ~callResult.value
        /\ (callArgs.gapPx = 0 /\ callArgs.clearance < 0) => callResult.value
        /\ (callArgs.gapPx > 0 /\ callArgs.clearance >= 0 /\ callArgs.clearance < callArgs.gapPx)
              => callResult.value

\* The point is inside the convex polygon or on its boundary, whichever way
\* round the polygon is given
InsideConvex(point, polygonPoints) ==
    LET n == Len(polygonPoints)
        winding == Sgn(ShoelaceSum(polygonPoints, n))
    IN \A i \in 1..n :
         LET a == polygonPoints[i]
             b == polygonPoints[NextIndex(i, n)]
         IN winding * ((b.x - a.x) * (point.y - a.y) - (b.y - a.y) * (point.x - a.x)) >= 0

SubjectInsideClip ==
    \A i \in DOMAIN callArgs.subjectPolygon :
        InsideConvex(callArgs.subjectPolygon[i], callArgs.clipPolygon)

\* C12: a rectangle lying inside a convex polygon is clipped to its own corner
\* set, in whatever vertex order the polygon is given
C12_ClipKeepsInnerRectangle ==
    (Called("clipPolygonByPolygon") /\ SubjectInsideClip) =>
        Range(callResult.value) = Range(callArgs.subjectPolygon)

\* C13: isPointInPolygon gives the same answer for every cyclic rotation of the
\* vertex list of the polygon
C13_PointInPolygonAnyStartVertex ==
    Called("isPointInPolygon") =>
        \A k \in 0..(Len(callArgs.polygonPoints) - 1) :
            isPointInPolygon(callArgs.point, Rotated(callArgs.polygonPoints, k))
                = callResult.value

\* C13 witness: a point found inside the L-shaped room, level with a vertex
C13_Witness ==
    /\ Called("isPointInPolygon") /\ callResult.value
    /\ callArgs.polygonPoints = LShapedRoom
    /\ \E i \in DOMAIN LShapedRoom : LShapedRoom[i].y = callArgs.point.y

\* C14: two runs of generateTessellation on the same input return the same
\* planks and the same spares, ids included.  Every run starts with the clock
\* at 0 and one of the runs on each input is the run in which the clock stands
\* still, whose spares are all stamped 0; a run on the same input returns the
\* same lists only if its spares are stamped 0 as well
C14_ResultIndependentOfClock ==
    pc = "done" =>
        /\ \A i \in DOMAIN planks : planks[i].id.stamp = 0
        /\ \A i \in DOMAIN spares : spares[i].id.stamp = 0

\* The inputs the specification calls degenerate
DegenerateInput == Len(room) < 3 \/ dims.length <= 0 \/ dims.width <= 0

\* C15 as claimed: on degenerate input (fewer than three polygon points, or a
\* plank length or width that is zero or negative) the run that has returned
\* placed no plank beyond the seed and returns an empty spare list.
C15_DegenerateInputPlacesNothing ==
    (pc = "done" /\ DegenerateInput) => (planks = << seed >> /\ spares = << >>)

\* A spare of the ledger laid at the position and orientation of the test plank
SpareAt(spare, testPlank) ==
    [spare EXCEPT !.x = testPlank.x, !.y = testPlank.y, !.rotation = testPlank.rotation]

\* The spare would fully fit the slot of the test plank: laid there it lies
\* in the polygon and keeps clear of the accepted planks
SpareFitsSlot(spare, testPlank) ==
    /\ isPlankInPolygon(SpareAt(spare, testPlank), room)
    /\ ~plankCollidesWithExisting(SpareAt(spare, testPlank), planks, GapPx)

FittingSpares(testPlank) ==
    { i \in DOMAIN spares : SpareFitsSlot(spares[i], testPlank) }

\* C16 as claimed: when the ledger holds a spare that would fully fit the slot
\* of the candidate, the placement attempt appends the longest such spare,
\* laid at the candidate's position, to the accepted planks and removes it
\* from the ledger.
C16_FittingSpareIsReused ==
    [][ (/\ Attempting(NextTestPlank)
         /\ FittingSpares(NextTestPlank) # {}
         /\ attempts' = attempts + 1)
        => \E i \in FittingSpares(NextTestPlank) :
             /\ \A j \in FittingSpares(NextTestPlank) : spares[j].length <= spares[i].length
             /\ planks' = Append(planks, SpareAt(spares[i], NextTestPlank))
             /\ spares' = RemoveAt(spares, i) ]_vars

\* A position along the plank axis within the span of one plank and its gap
WithinSpan(position) == position % (LengthPx + GapPx)

\* C17 as claimed: when a row is started right after the row of the index
\* before it, the start positions of the two rows along the plank axis, taken
\* modulo length + gap, differ by at least minRowOffset.
C17_AdjacentRowsStaggered ==
    [][ (/\ pc = "rows" /\ pc' = "row"
         /\ rowSt'.rowIndex = rowSt.rowIndex + 1
         /\ LengthPx + GapPx > 0)
        => Abs(WithinSpan(rowSt'.startX) - WithinSpan(rowSt.startX)) >= MinRowOffsetPx ]_vars

\* What the renderer makes of the plank a step has just accepted
AcceptedRenderInfo == analyzePlankForRendering(planks'[Len(planks')])

\* C18 as claimed: the kind of every accepted plank is recoverable from its
\* fields: a whole plank is classified as full, a linear-cut fitted plank as
\* cut and not full, a multi-line cut has isMultiLineCut, and a shape cut has
\* isArbitraryShape without isMultiLineCut.
C18_KindRecoverableFromFields ==
    [][ /\ PlaceFull =>
              /\ ~AcceptedRenderInfo.isCut /\ ~AcceptedRenderInfo.isArbitraryShape
              /\ AcceptedRenderInfo.fillColor = PLANK_FILL_RGB_FULL
        /\ PlaceLinearCut =>
              /\ AcceptedRenderInfo.isCut /\ ~AcceptedRenderInfo.isArbitraryShape
              /\ AcceptedRenderInfo.fillColor = PLANK_FILL_RGB_LINEAR_CUT
        /\ PlaceMultiLineCut =>
              /\ AcceptedRenderInfo.isArbitraryShape /\ AcceptedRenderInfo.isMultiLineCut
              /\ AcceptedRenderInfo.fillColor = PLANK_FILL_RGB_MULTILINE_CUT
        /\ PlaceShapeCut =>
              /\ AcceptedRenderInfo.isArbitraryShape /\ ~AcceptedRenderInfo.isMultiLineCut
              /\ AcceptedRenderInfo.fillColor = PLANK_FILL_RGB_REGULAR_CUT ]_vars

ValidInput == Len(room) >= 3 /\ dims.length > 0 /\ dims.width > 0

\* The loop of a row has run at most maxAttempts times, the row in hand is one
\* of -maxRowsNeeded..maxRowsNeeded, and a row that has been processed is
\* completed, its cursor outside the bounds or its attempts used up
RowLoopBounded ==
    /\ attempts <= MaxAttempts
    /\ pc = "row" => rowSt.rowIndex \in (-MaxRowsNeeded)..MaxRowsNeeded
    /\ (pc \in {"rows", "done"} /\ row > -MaxRowsNeeded) =>
          /\ rowSt.completed
          /\ NextIsOutsideBounds \/ attempts >= MaxAttempts

\* C19: on an input with at least three polygon points and positive plank
\* length and width generateTessellation returns; on the way every row loop
\* runs at most 20 times, every processed row ends completed (cursor outside
\* the bounds or attempts used up) and only rows -maxRowsNeeded..maxRowsNeeded
\* are processed.
C19_ValidInputTerminates ==
    /\ ValidInput ~> (pc = "done")
    /\ [](ValidInput => RowLoopBounded)

\* C19 witness: a run on a valid input has returned, with planks laid beside the seed
C19_Witness == pc = "done" /\ ValidInput /\ Len(planks) > 1

\* The row loop stands before a test plank that no spare replaces and that
\* does not lie in the polygon as a whole: the cutting strategies get it
ReachesCutting ==
    /\ Attempting(NextTestPlank)
    /\ findSuitableSpare(NextTestPlank, room, spares) = << >>
    /\ ~isPlankInPolygon(NextTestPlank, room)

\* Each strategy on that test plank: it returns a piece, and the collision
\* test of its branch passes
LinearSucceeds ==
    \E cut \in { tryLinearCut(NextTestPlank, room) } :
        cut # << >> /\ ~plankCollidesWithExisting(cut[1].fitted, planks, GapPx)

MultiLineSucceeds ==
    /\ tryMultiLineCut(NextTestPlank, room) # << >>
    /\ ~hasCollisionWithExisting(NextTestPlank, planks)

ShapeSucceeds ==
    /\ fitPlankByShapeCutting(NextTestPlank, room) # << >>
    /\ ~hasCollisionWithExisting(NextTestPlank, planks)

\* C20 within the runs of generateTessellation: the cutting strategies take
\* effect in the order linear, multi-line, shape, a later one only when every
\* earlier one failed; the first that succeeds appends its fitted plank, and
\* at most one spare; when all three fail the accepted planks and the spare
\* ledger are left as they were.
C20_StrategiesInOrderInRuns ==
    [][ (ReachesCutting /\ attempts' = attempts + 1) =>
          /\ Len(planks') <= Len(planks) + 1
          /\ Len(spares') <= Len(spares) + 1
          /\ IF LinearSucceeds
             THEN \E cut \in { tryLinearCut(NextTestPlank, room)[1] } :
                    planks' = Append(planks, cut.fitted) /\ spares' = Append(spares, cut.spare)
             ELSE IF MultiLineSucceeds
             THEN \E cut \in { tryMultiLineCut(NextTestPlank, room)[1] } :
                    planks' = Append(planks, cut.fitted) /\ spares' = spares \o cut.spare
             ELSE IF ShapeSucceeds
             THEN \E shapeCutPlank \in { fitPlankByShapeCutting(NextTestPlank, room)[1] } :
                    /\ planks' = Append(planks, shapeCutPlank)
                    /\ spares' = spares \o createSpareFromCut(NextTestPlank, shapeCutPlank)
             ELSE planks' = planks /\ spares' = spares ]_vars

\* What a call of attemptCuttingStrategies has to leave, the strategies taken
\* in the order linear, multi-line, shape
ChainOutcome(testPlank, polygonPoints, newPlanks, newSpares, gapPx) ==
    LET linear == tryLinearCut(testPlank, polygonPoints)
        multiLine == tryMultiLineCut(testPlank, polygonPoints)
        shape == fitPlankByShapeCutting(testPlank, polygonPoints)
        blocked == hasCollisionWithExisting(testPlank, newPlanks)
    IN IF linear # << >> /\ ~plankCollidesWithExisting(linear[1].fitted, newPlanks, gapPx)
       THEN [placed |-> TRUE, newPlanks |-> Append(newPlanks, linear[1].fitted),
             newSpares |-> Append(newSpares, linear[1].spare)]
       ELSE IF multiLine # << >> /\ ~blocked
       THEN [placed |-> TRUE, newPlanks |-> Append(newPlanks, multiLine[1].fitted),
             newSpares |-> newSpares \o multiLine[1].spare]
       ELSE IF shape # << >> /\ ~blocked
       THEN [placed |-> TRUE, newPlanks |-> Append(newPlanks, shape[1]),
             newSpares |-> newSpares \o createSpareFromCut(testPlank, shape[1])]
       ELSE [placed |-> FALSE, newPlanks |-> newPlanks, newSpares |-> newSpares]

\* C20: a call of attemptCuttingStrategies takes the strategies in the order
\* linear, multi-line, shape, a later one only when every earlier one
\* returned nothing or collided; the first success appends exactly one fitted
\* plank and at most one spare; when all three fail both lists are left
\* unchanged.
C20_StrategiesInOrder ==
    Called("attemptCuttingStrategies") =>
        /\ callResult.value = ChainOutcome(callArgs.testPlank, callArgs.polygonPoints,
                                            callArgs.newPlanks, callArgs.newSpares,
                                            callArgs.gapPx)
        /\ Len(callResult.value.newPlanks)
             = Len(callArgs.newPlanks) + (IF callResult.value.placed THEN 1 ELSE 0)
        /\ Len(callResult.value.newSpares) <= Len(callArgs.newSpares) + 1
        /\ ~callResult.value.placed => callResult.value.newSpares = callArgs.newSpares

\* C20 witness: the linear cut gave a piece that collided with the plank laid
\* beside the candidate, and the shape cut was placed instead
C20_Witness ==
    /\ Called("attemptCuttingStrategies")
    /\ \E cut \in { tryLinearCut(callArgs.testPlank, callArgs.polygonPoints) } :
         /\ cut # << >>
         /\ plankCollidesWithExisting(cut[1].fitted, callArgs.newPlanks, callArgs.gapPx)
    /\ callResult.value.placed
    /\ callResult.value.newPlanks[Len(callResult.value.newPlanks)].id.suffix = "shaped"

\* An iteration of the row loop that created a test plank and placed a plank,
\* and one that created a test plank and placed none
PlacementStep == Testing /\ attempts' = attempts + 1 /\ Len(planks') = Len(planks) + 1

NoPlacementStep == Testing /\ attempts' = attempts + 1 /\ planks' = planks

\* C21 as claimed: after a placement the cursor of the row advances by the
\* length of the plank just placed plus the gap, and the near end of the next
\* candidate lies exactly one gap beyond the far end of the placed plank;
\* after a skip or a failed placement the cursor advances by the nominal
\* length plus the gap.
C21_CursorAdvancesByPlacedLength ==
    [][ /\ PlacementStep =>
              \E actualPlank \in { planks'[Len(planks')] } :
                 /\ rowSt'.nextX = rowSt.nextX + mmToPixels(actualPlank.length) + GapPx
                 /\ 2 * rowSt'.nextX - LengthPx
                      = 2 * (MaxX(OutlineOf(actualPlank)) + GapPx)
        /\ NoPlacementStep => rowSt'.nextX = rowSt.nextX + LengthPx + GapPx ]_vars

\* The cursor of row 0 has moved on from the seed's own position
PastSeedPosition ==
    /\ InLoop
    /\ rowSt.rowIndex = 0
    /\ << rowSt.nextX, rowSt.nextY >> # << rowSt.startX, rowSt.startY >>

\* C22 as claimed: in row 0 only the seed's own position is skipped; an
\* iteration at any later cursor position of row 0 evaluates that position as
\* a candidate (a test plank is created for it and an id is used) or finds it
\* outside the bounds and completes the row
C22_RowZeroSkipsOnlySeedPosition ==
    [][ (PastSeedPosition /\ attempts' = attempts + 1)
            => (idCounter' = idCounter + 1 \/ rowSt'.completed) ]_vars

\* The distance of a row from the seed row, and the row a spare was cut in
\* (the spare keeps the row index of the test plank in its id)
RowDistance(rowIndex) == IF rowIndex < 0 THEN -rowIndex ELSE rowIndex

RowOfSpare(spare) == spare.id.base[1]

\* C23 as claimed: the rows are started outward from the seed row (row 0 is
\* the first row started, and no row is started after a row farther from the
\* seed), and when calculateOptimalRowOffset is consulted for a row the spare
\* ledger holds only spares produced by rows nearer to the seed
C23_RowsProcessedOutward ==
    [][ (pc = "rows" /\ pc' = "row") =>
            /\ RowDistance(rowSt.rowIndex) <= RowDistance(rowSt'.rowIndex)
            /\ \A i \in 1..Len(spares) :
                   RowDistance(RowOfSpare(spares[i])) < RowDistance(rowSt'.rowIndex) ]_vars

\* The offset calculateOptimalRowOffset returns for the row being started
OffsetOfStartedRow ==
    calculateOptimalRowOffset(rowSt'.rowIndex, MinRowOffsetPx, LengthPx + GapPx, spares)

\* C24 as claimed: for a row other than row 0, a minimum row offset above 0
\* and any spare ledger, the offset calculateOptimalRowOffset returns is at
\* least the minimum row offset (so it is neither negative nor 0)
C24_RowOffsetAtLeastMinimum ==
    [][ (pc = "rows" /\ pc' = "row" /\ rowSt'.rowIndex # 0 /\ MinRowOffsetPx > 0)
            => OffsetOfStartedRow >= MinRowOffsetPx ]_vars

\* The chain ended with the piece tryLinearCut returned for the candidate
LinearCutReturned == pc = "cut" /\ cutResult.done /\ cutResult.method = "linear"

\* C25 as claimed: every fitted piece tryLinearCut returns has a length between
\* 5% and 95% of the length of the original plank (so no piece is returned
\* that would be shorter than 5% or longer than 95%)
C25_LinearCutLengthWithinLimits ==
    LinearCutReturned =>
        /\ 100 * cutResult.fitted[1].length >= 5 * candidate.length
        /\ 100 * cutResult.fitted[1].length <= 95 * candidate.length

\* The two halves of the test, on the corners of the plank's rectangle
AllCornersInside(plank, polygonPoints) ==
    \A c \in 1..4 : isPointInPolygon(getPlankCorners(plank)[c], polygonPoints)

NoEdgeCrossing(plank, polygonPoints) ==
    LET corners == getPlankCorners(plank)
        n == Len(polygonPoints)
    IN \A i \in 1..n : \A c \in 1..4 :
          ~doLinesIntersect(polygonPoints[i], polygonPoints[NextIndex(i, n)],
                            corners[c], corners[NextIndex(c, 4)])

\* attemptPlankPlacement appended the test plank itself, unchanged
AcceptedUnchanged ==
    /\ Called("attemptPlankPlacement")
    /\ callResult.value.placed
    /\ callResult.value.newPlanks = Append(callArgs.newPlanks, callArgs.testPlank)

\* C26: isPlankInPolygon returns true exactly when all four corners of the
\* plank's rectangle are inside the polygon and no edge of the rectangle meets
\* an edge of the polygon, and attemptPlankPlacement accepts the full plank
\* unchanged only when that holds
C26_PlankInPolygonIsCornersAndEdges ==
    /\ Called("isPlankInPolygon") =>
          (callResult.value <=> /\ AllCornersInside(callArgs.plank, callArgs.polygonPoints)
                                /\ NoEdgeCrossing(callArgs.plank, callArgs.polygonPoints))
    /\ AcceptedUnchanged =>
          /\ AllCornersInside(callArgs.testPlank, callArgs.polygonPoints)
          /\ NoEdgeCrossing(callArgs.testPlank, callArgs.polygonPoints)

\* A full plank accepted unchanged in the room with the inner corner
C26_Witness == AcceptedUnchanged /\ callArgs.polygonPoints = CorneredRoom

\* attemptCuttingStrategies placed a multi-line cut or a shape cut and added
\* its spare to the ledger
SpareOfShapedCut ==
    /\ Called("attemptCuttingStrategies")
    /\ callResult.value.placed
    /\ callResult.value.newPlanks[Len(callResult.value.newPlanks)].id.suffix
         \in {"multicut", "shaped"}
    /\ Len(callResult.value.newSpares) = Len(callArgs.newSpares) + 1

\* C27 as claimed: the spare of a multi-line cut or of a shape cut is no
\* longer and no wider than the original plank (in mm, the unit of the plank),
\* and neither its length nor its width is below the minimum viable size of
\* 50 mm
C27_ShapedCutSpareWithinPlank ==
    SpareOfShapedCut =>
        \E spare \in { callResult.value.newSpares[Len(callResult.value.newSpares)] } :
           /\ spare.length <= callArgs.testPlank.length
           /\ spare.width <= callArgs.testPlank.width
           /\ spare.length >= MinSpareSideMm * Scale
           /\ spare.width >= MinSpareSideMm * Scale

\* The number of times the spare with the given id stands in a list
TimesIn(list, id) == Cardinality({ i \in DOMAIN list : list[i].isSpare /\ list[i].id = id })

\* Every spare of the ledger stands once in the ledger and is no accepted plank
LedgerHasNoDuplicates ==
    (pc \in {"rows", "row", "done"}) =>
        \A i \in DOMAIN spares :
            TimesIn(spares, spares[i].id) = 1 /\ TimesIn(planks, spares[i].id) = 0

\* A step keeps a spare of the ledger in the ledger, or takes it out and
\* appends it to the accepted planks
SpareKeptOrConsumed ==
    \A i \in DOMAIN spares :
        \/ TimesIn(spares', spares[i].id) = 1 /\ TimesIn(planks', spares[i].id) = 0
        \/ /\ TimesIn(spares', spares[i].id) = 0
           /\ Len(planks') = Len(planks) + 1
           /\ planks'[Len(planks')].isSpare
           /\ planks'[Len(planks')].id = spares[i].id

\* A step that places a cut plank enters the spare of that cut in the ledger
ProducedSpareEntersLedger ==
    (PlacementStep /\ planks'[Len(planks')].id.suffix \in {"fitted", "multicut", "shaped"}) =>
        \E cut \in { attemptCuttingStrategies(NextTestPlank, room, planks, GapPx) } :
            spares' = spares \o cut.spare

\* C28: no spare is lost or duplicated in a run: the spare a cut produces is
\* entered in the ledger, a spare of the ledger stays there (once) unless the
\* step that takes it out appends it to the accepted planks, the accepted
\* planks are never taken back, and no spare stands twice in the ledger or both
\* in the ledger and among the accepted planks
C28_SparesConserved ==
    /\ []LedgerHasNoDuplicates
    /\ [][ (pc # "start") =>
              /\ ProducedSpareEntersLedger
              /\ SpareKeptOrConsumed
              /\ SubSeq(planks', 1, Len(planks)) = planks ]_vars

\* A run that ended with at least two spares in the returned ledger
C28_Witness == pc = "done" /\ Len(spares) >= 2

\* Two results of fitPlankByShapeCutting agree: both null, or both a plank with
\* the same vertices in its shape
SameShapeCut(a, b) ==
    /\ (a = << >>) <=> (b = << >>)
    /\ a # << >> => Range(a[1].shape) = Range(b[1].shape)

\* C29 as claimed: fitPlankByShapeCutting gives the same decision and the same
\* clipped shape for a polygon and for the same polygon with its vertices
\* listed in the opposite direction
C29_ShapeCutIndependentOfDirection ==
    Called("fitPlankByShapeCutting") =>
        SameShapeCut(callResult.value,
                     fitPlankByShapeCutting(callArgs.plank, Reversed(callArgs.polygonPoints)))

\* C30 as claimed: plankOverlapsPolygon returns true for every plank whose
\* rectangle has area in common with the polygon
C30_OverlapTestFindsSharedArea ==
    (Called("plankOverlapsPolygon")
       /\ SharesArea(getPlankCorners(callArgs.plank), callArgs.polygonPoints))
        => callResult.value

====
